---- MODULE Spec2Model ----
(***************************************************************************)
(* Order-book synchronisation and fan-out of services/binanceCOB.js        *)
(* (class BinanceCOB), with the subscriber side of the order-book walls    *)
(* plugin (handleSnapshot / handleUpdate).                                 *)
(*                                                                         *)
(* One action per event-loop task: a REST snapshot response or failure, a  *)
(* retry timer, a depth message on the exchange socket, a client           *)
(* connection, the 50 ms live-snapshot timer, the history sampling timer.  *)
(* Promise continuations (microtasks) run inside the task that settles     *)
(* the promise, so they are part of that task's action.                    *)
(***************************************************************************)
EXTENDS Integers, Sequences, FiniteSets, TLC

VARIABLES
    orderBooks,      \* this.orderBooks: symbol -> [lastUpdateId, bids, asks]; a key is absent until the first snapshot
    inflight,        \* per symbol: REST snapshot requests awaiting their response, by caller
    retryTimers,     \* per symbol: pending setTimeout(_resetOrderBook, 5000)
    initPending,     \* symbols whose initial _resetOrderBook in _init has not settled
    binanceWS,       \* per symbol: state of the exchange depth socket
    snapshotTimer,   \* the 30 s setInterval of _startSnapshotInterval is running
    historicalData,  \* this.historicalData: symbol -> snapshots, newest first
    now,             \* Date.now() of the next history sample
    stream,          \* per symbol: the last update id the exchange's depth stream has delivered
    conn,            \* local server sockets: [readyState, symbol, limit, snapTimer]; limit is the parameter of the request
    sent,            \* per socket: the messages written to it, in order
    sub,             \* per socket: the subscriber's book (handleSnapshot / handleUpdate)
    sendErrors,      \* per socket: the send errors caught and logged by the service
    lastU,           \* per open socket: data.u of the last depth_update written after the last snapshot-bearing message, 0 if none
    sendThrows,      \* the sockets on which client.send() currently throws
    drained,         \* per socket: how many of the written messages the client has read
    isRunning,       \* this.isRunning; the local server accepts connections while it holds
    disk,            \* per symbol: the snapshots in the history file
    commitTimers,    \* per symbol: pending _commitHistoricalDataAsync timeouts
    lastEvent,       \* the event that came last, a task of the service or a change at a client: [op, sym, outcome, arg]
    concentrator,    \* binanceWSC.js, BinanceWebSocketConcentrator: [isPaused, binanceWS, sockets, timers, toInit]
    wsClient         \* binanceCOB.js, WebSocketClient: [option, maxRetries, retryCount, readyState, timer, listeners, inARow]

vars == << orderBooks, inflight, retryTimers, initPending, binanceWS, snapshotTimer,
           historicalData, now, stream, conn, sent, sub, sendErrors, lastU,
           sendThrows, drained, isRunning, disk, commitTimers, lastEvent,
           concentrator, wsClient >>

(***************************************************************************)
(* Bounds of the exploration.                                              *)
(***************************************************************************)
MaxSeq == 3
MaxFetch == 2
MaxLive == 2
MaxTime == 2
MaxChanges == 2
MaxAttempts == 3

(***************************************************************************)
(* Program constants.                                                      *)
(***************************************************************************)
HistoryCap == 200
TopLevels == 20
CommitEvery == 20
DiskCap == 1000
\* 2 * 60 * 60 * 1000 ms, in sampling periods of 30000 ms
TwoHours == 240

Symbols == {"BTCUSDT"}
Clients == {1}

Min(a, b) == IF a < b THEN a ELSE b

(***************************************************************************)
(* Price and quantity strings as the exchange sends them, and what         *)
(* parseFloat / unary plus make of them (in hundredths).                   *)
(***************************************************************************)
BidPrices == {"100.10", "100.20"}
AskPrices == {"100.30", "100.40"}
Qtys == {"0.00", "1.00", "2.00"}

ParseFloat(str) ==
    CASE str = "0.00" -> 0
      [] str = "1.00" -> 100
      [] str = "2.00" -> 200
      [] str = "100.10" -> 10010
      [] str = "100.20" -> 10020
      [] str = "100.30" -> 10030
      [] str = "100.40" -> 10040

ToUpperCase(str) ==
    CASE str = "btcusdt" -> "BTCUSDT"
      [] str = "BTCUSDT" -> "BTCUSDT"
      [] str = "BtcUsdt" -> "BTCUSDT"
      [] str = "dogeusdt" -> "DOGEUSDT"
      [] str = "ethusdt" -> "ETHUSDT"
      [] OTHER -> str

ParseInt(str) ==
    CASE str = "0" -> 0
      [] str = "1" -> 1
      [] str = "2" -> 2
      [] str = "3" -> 3
      [] OTHER -> 0

(***************************************************************************)
(* Array.prototype.sort(cmp): a stable sort; cmp(a, b) < 0 puts a first.   *)
(* An element comes behind the elements that cmp puts first and behind     *)
(* the earlier ones among those cmp holds equal to it.                     *)
(***************************************************************************)
\* the comparators in use
Compare(cmp, a, b) ==
    CASE cmp = "bids" -> ParseFloat(b[1]) - ParseFloat(a[1])    \* _applyDeltas, bids
      [] cmp = "asks" -> ParseFloat(a[1]) - ParseFloat(b[1])    \* _applyDeltas, asks
      [] cmp = "numBids" -> b[1] - a[1]                         \* processWalls, bids
      [] cmp = "numAsks" -> a[1] - b[1]                         \* processWalls, asks
      [] cmp = "timestamp" -> b.timestamp - a.timestamp         \* getHistoricalData

SortBy(s, cmp) ==
    LET place == << >> \o [ i \in 1..Len(s) |->
                    1 + Cardinality({ j \in 1..Len(s) :
                            LET c == Compare(cmp, s[j], s[i])
                            IN  c < 0 \/ (c = 0 /\ j < i) }) ]
    IN  [ k \in 1..Len(s) |-> s[CHOOSE i \in 1..Len(s) : place[i] = k] ]

SortBidsUnsorted(side) == side

SortBids(side) == SortBy(side, "bids")

SortAsks(side) == SortBy(side, "asks")

(***************************************************************************)
(* _applyDeltas: per side, for each [price, qty] in order: findIndex by    *)
(* price string; qty 0 splices the level out if found; otherwise push or   *)
(* overwrite. Then both sides are sorted.                                  *)
(***************************************************************************)
FindIndex(side, price) ==
    IF \E i \in 1..Len(side) : side[i][1] = price
    THEN CHOOSE i \in 1..Len(side) :
            /\ side[i][1] = price
            /\ \A j \in 1..(i - 1) : side[j][1] # price
    ELSE 0

Splice(side, index) ==
    SubSeq(side, 1, index - 1) \o SubSeq(side, index + 1, Len(side))

ApplyLevelNoRemove(side, lvl) ==
    LET index == FindIndex(side, lvl[1])
    IN  IF index = 0 THEN Append(side, lvl)
        ELSE [side EXCEPT ![index] = << side[index][1], lvl[2] >>]

ApplyLevelNoOverwrite(side, lvl) ==
    LET index == FindIndex(side, lvl[1])
    IN  IF ParseFloat(lvl[2]) = 0
        THEN IF index > 0 THEN Splice(side, index) ELSE side
        ELSE IF index = 0 THEN Append(side, lvl)
        ELSE side

ApplyLevel(side, lvl) ==
    LET index == FindIndex(side, lvl[1])
    IN  IF ParseFloat(lvl[2]) = 0
        THEN IF index > 0 THEN Splice(side, index) ELSE side
        ELSE IF index = 0 THEN Append(side, lvl)
        ELSE [side EXCEPT ![index] = << side[index][1], lvl[2] >>]

RECURSIVE ApplySide(_, _)
ApplySide(side, deltas) ==
    IF deltas = << >> THEN side
    ELSE ApplySide(ApplyLevel(side, Head(deltas)), Tail(deltas))

ApplyDeltas(book, bids, asks) ==
    [book EXCEPT !.bids = SortBids(ApplySide(book.bids, bids)),
                 !.asks = SortAsks(ApplySide(book.asks, asks))]

(***************************************************************************)
(* Input domains: what the exchange can answer and stream. A REST          *)
(* snapshot lists each side best price first, one level per price, no      *)
(* empty level; a depth event covers the update ids U..u with U <= u.      *)
(***************************************************************************)
PosQtys == { q \in Qtys : ParseFloat(q) > 0 }

Levels(prices, qtys) == { << p, q >> : p \in prices, q \in qtys }

\* the sides over a set of prices, best price first by cmp
SidesOver(prices, qtys, cmp) ==
    UNION { { SortBy(s, cmp) : s \in { f \in [1..Cardinality(ps) -> Levels(ps, qtys)] :
                                    \A i, j \in 1..Cardinality(ps) :
                                        i # j => f[i][1] # f[j][1] } } :
            ps \in SUBSET prices }

SnapshotsOver(bidPrices, askPrices, qtys) ==
    [ lastUpdateId : 0..(MaxSeq - 1),
      bids : SidesOver(bidPrices, qtys, "bids"),
      asks : SidesOver(askPrices, qtys, "asks") ]

ChangesUpTo(n, prices, qtys) ==
    UNION { [1..k -> Levels(prices, qtys)] : k \in 0..n }

DeltasOver(bidChanges, askChanges) ==
    { d \in [ U : 1..MaxSeq, u : 1..MaxSeq, b : bidChanges, a : askChanges ] : d.U <= d.u }

(***************************************************************************)
(* Messages to local clients: id is snapshot.lastUpdateId, data.u or the   *)
(* capture time of a backfilled snapshot; bids/asks is the book payload    *)
(* (snapshot.bids/asks, data.b/a).                                         *)
(***************************************************************************)
Msg(type, sequence, total, id, bids, asks) ==
    [ type |-> type, sequence |-> sequence, total |-> total, id |-> id,
      bids |-> bids, asks |-> asks ]

\* what the log keeps: the type, and for a backfilled snapshot its place and
\* capture time
Header(m) ==
    [ type |-> m.type,
      sequence |-> IF m.type = "historical" THEN m.sequence ELSE 0,
      total |-> IF m.type = "historical" THEN m.total ELSE 0,
      ts |-> IF m.type = "historical" THEN m.id ELSE 0 ]

ErrorMsg == Msg("error", 0, 0, 0, << >>, << >>)

HistoricalMsg(snapshot, index, total) ==
    Msg("historical", index, total, snapshot.timestamp, snapshot.bids, snapshot.asks)

HistoricalCompleteMsg == Msg("historical_complete", 0, 0, 0, << >>, << >>)

LiveSnapshotMsg(book) ==
    Msg("live_snapshot", 0, 0, book.lastUpdateId, book.bids, book.asks)

DepthUpdateMsg(d) == Msg("depth_update", d.U, d.u, d.u, d.b, d.a)

ResyncMsg(book) == Msg("resync", 0, 0, book.lastUpdateId, book.bids, book.asks)

(***************************************************************************)
(* The subscriber: the order-book message handler of the walls plugin.     *)
(* Its book holds numbers; processWalls sorts both sides after each        *)
(* snapshot and update.                                                    *)
(***************************************************************************)
ParseLevels(side) ==
    [ i \in 1..Len(side) |-> << ParseFloat(side[i][1]), ParseFloat(side[i][2]) >> ]

NoSub == [ isSnapshotLoaded |-> FALSE, bids |-> << >>, asks |-> << >> ]

ProcessWalls(s) ==
    [ s EXCEPT !.bids = SortBy(@, "numBids"), !.asks = SortBy(@, "numAsks") ]

\* side[0]?.[0]: the price of the first level, << >> for undefined
BestPrice(side) == IF side = << >> THEN << >> ELSE << side[1][1] >>

\* !x for a price that may be undefined
Falsy(x) == x = << >> \/ x[1] = 0

\* a test that looks at the bid side only
WallsReadyBidOnly(s, currentKlinePrice) ==
    ~ (Falsy(BestPrice(s.bids)) \/ currentKlinePrice = << >>)

\* the negation of `!bestBid || !bestAsk || this.currentKlinePrice == null`,
\* on the sorted book; << >> stands for a kline price of null
WallsReady(s, currentKlinePrice) ==
    ~ (Falsy(BestPrice(s.bids)) \/ Falsy(BestPrice(s.asks)) \/ currentKlinePrice = << >>)

\* processWalls past the sorting: whether the mid price is computed (given
\* doubled, bestBid + bestAsk) and whether the wall detection with its BUY
\* and SELL signals and graph messages runs
WallsOutcome(s, currentKlinePrice) ==
    IF WallsReady(s, currentKlinePrice)
    THEN [ ready |-> TRUE,
           midPrice2 |-> << BestPrice(s.bids)[1] + BestPrice(s.asks)[1] >>,
           detection |-> TRUE ]
    ELSE [ ready |-> FALSE, midPrice2 |-> << >>, detection |-> FALSE ]

HandleSnapshot(s, snapshot) ==
    ProcessWalls([ isSnapshotLoaded |-> TRUE,
                   bids |-> ParseLevels(snapshot.bids),
                   asks |-> ParseLevels(snapshot.asks) ])

SubApplyLevel(side, lvl) ==
    LET price == ParseFloat(lvl[1])
        qty == ParseFloat(lvl[2])
        i == FindIndex(side, price)
    IN  IF i > 0
        THEN IF qty = 0 THEN Splice(side, i)
                        ELSE [side EXCEPT ![i] = << side[i][1], qty >>]
        ELSE IF qty > 0 THEN Append(side, << price, qty >>) ELSE side

RECURSIVE SubApplySide(_, _)
SubApplySide(side, deltas) ==
    IF deltas = << >> THEN side
    ELSE SubApplySide(SubApplyLevel(side, Head(deltas)), Tail(deltas))

HandleUpdate(s, update) ==
    IF ~ s.isSnapshotLoaded THEN s
    ELSE ProcessWalls([ s EXCEPT !.bids = SubApplySide(@, update.bids),
                                 !.asks = SubApplySide(@, update.asks) ])

\* this.ws.on('message'): dispatch on type, then on the presence of a snapshot
OnMessage(s, m) ==
    IF m.type = "live_snapshot" THEN HandleSnapshot(s, m)
    ELSE IF m.type = "depth_update" THEN HandleUpdate(s, m)
    ELSE IF m.type \in {"historical", "resync"} THEN HandleSnapshot(s, m)
    ELSE s

RECURSIVE OnMessages(_, _)
OnMessages(s, ms) ==
    IF ms = << >> THEN s ELSE OnMessages(OnMessage(s, Head(ms)), Tail(ms))

(***************************************************************************)
(* Writing to sockets.                                                     *)
(***************************************************************************)
Headers(ms) == [ i \in 1..Len(ms) |-> Header(ms[i]) ]

\* a filter that forgets the symbol
SymbolClientsAnySymbol(symbol) ==
    { c \in DOMAIN conn : conn[c].readyState = "OPEN" }

\* symbolClients: the sockets tagged with the symbol and OPEN
SymbolClients(symbol) ==
    { c \in DOMAIN conn : conn[c].symbol = symbol /\ conn[c].readyState = "OPEN" }

\* data.u of the last depth_update among the messages ms written after `u`,
\* 0 once a message with a snapshot follows
RECURSIVE LastUAfter(_, _)
LastUAfter(u, ms) ==
    IF ms = << >> THEN u
    ELSE LastUAfter(IF Head(ms).type = "depth_update" THEN Head(ms).total
                    ELSE IF Head(ms).type \in {"live_snapshot", "resync", "historical"} THEN 0
                    ELSE u,
                    Tail(ms))

\* a loop that a throwing send ends: nobody is written to
SendAllOrNone(targets, m) ==
    /\ sent' = [ c \in DOMAIN conn |->
                    IF c \in targets /\ targets \cap sendThrows = {}
                    THEN Append(sent[c], Header(m)) ELSE sent[c] ]
    /\ sub' = [ c \in DOMAIN conn |->
                    IF c \in targets /\ targets \cap sendThrows = {}
                    THEN OnMessage(sub[c], m) ELSE sub[c] ]
    /\ lastU' = [ c \in DOMAIN conn |->
                    IF c \in targets /\ targets \cap sendThrows = {}
                    THEN LastUAfter(lastU[c], << m >>) ELSE lastU[c] ]
    /\ sendErrors' = [ c \in DOMAIN conn |->
                    IF c \in targets \cap sendThrows THEN sendErrors[c] + 1 ELSE sendErrors[c] ]

\* a write that goes in front of what the socket was written before
SendAllInFront(targets, m) ==
    /\ sent' = [ c \in DOMAIN conn |->
                    IF c \in targets \ sendThrows THEN << Header(m) >> \o sent[c] ELSE sent[c] ]
    /\ sub' = [ c \in DOMAIN conn |->
                    IF c \in targets \ sendThrows THEN OnMessage(sub[c], m) ELSE sub[c] ]
    /\ lastU' = [ c \in DOMAIN conn |->
                    IF c \in targets \ sendThrows THEN LastUAfter(lastU[c], << m >>) ELSE lastU[c] ]
    /\ sendErrors' = [ c \in DOMAIN conn |->
                    IF c \in targets \cap sendThrows THEN sendErrors[c] + 1 ELSE sendErrors[c] ]

\* symbolClients.forEach(client => { try { client.send(message) } catch (err)
\* { log } }): every socket of `targets` is tried; a send that throws is
\* logged and the loop goes on
SendAll(targets, m) ==
    /\ sent' = [ c \in DOMAIN conn |->
                    IF c \in targets \ sendThrows THEN Append(sent[c], Header(m)) ELSE sent[c] ]
    /\ sub' = [ c \in DOMAIN conn |->
                    IF c \in targets \ sendThrows THEN OnMessage(sub[c], m) ELSE sub[c] ]
    /\ lastU' = [ c \in DOMAIN conn |->
                    IF c \in targets \ sendThrows THEN LastUAfter(lastU[c], << m >>) ELSE lastU[c] ]
    /\ sendErrors' = [ c \in DOMAIN conn |->
                    IF c \in targets \cap sendThrows THEN sendErrors[c] + 1 ELSE sendErrors[c] ]

BroadcastLiveUpdate(symbol, depthUpdate) ==
    SendAll(SymbolClients(symbol), DepthUpdateMsg(depthUpdate))

\* the book is read after _resetOrderBook has settled
BroadcastResync(symbol, books) ==
    SendAll(SymbolClients(symbol), ResyncMsg(books[symbol]))

\* the messages _sendSnapshotToClient writes to a socket in state readyState
SendSnapshotToClient(readyState, symbol) ==
    IF symbol \notin DOMAIN orderBooks \/ readyState # "OPEN" THEN << >>
    ELSE << LiveSnapshotMsg(orderBooks[symbol]) >>

\* the exploration follows a socket for the first MaxLive live messages
\* tried on it, written or not
LiveCount(log) ==
    Cardinality({ i \in 1..Len(log) : log[i].type \in {"depth_update", "resync"} })

CanSend == \A c \in DOMAIN conn : LiveCount(sent[c]) + sendErrors[c] < MaxLive

(***************************************************************************)
(* History.                                                                *)
(***************************************************************************)
Slice(s, n) == SubSeq(s, 1, Min(n, Len(s)))

\* the history file as _initializeHistoricalStorage creates it
DiskData(symbol) == << >>

PricesIn(side) == { side[i][1] : i \in 1..Len(side) }

\* a history that is never cut
SaveSnapshotNoCap(history, book, timestamp) ==
    << [ timestamp |-> timestamp,
         lastUpdateId |-> book.lastUpdateId,
         bids |-> Slice(book.bids, TopLevels),
         asks |-> Slice(book.asks, TopLevels),
         shared |-> [ bids |-> PricesIn(Slice(book.bids, TopLevels)),
                      asks |-> PricesIn(Slice(book.asks, TopLevels)) ] ] >> \o history

\* book.bids.slice(0, 20) copies the array of levels, not the levels: each
\* [price, qty] pair of the snapshot is the pair the book holds. `shared`
\* names, per side, the prices whose pair is still the one in the book.
SaveSnapshot(history, book, timestamp) ==
    LET snapshot == [ timestamp |-> timestamp,
                      lastUpdateId |-> book.lastUpdateId,
                      bids |-> Slice(book.bids, TopLevels),
                      asks |-> Slice(book.asks, TopLevels),
                      shared |-> [ bids |-> PricesIn(Slice(book.bids, TopLevels)),
                                   asks |-> PricesIn(Slice(book.asks, TopLevels)) ] ]
        h == << snapshot >> \o history
    IN  IF Len(h) > HistoryCap THEN Slice(h, HistoryCap) ELSE h

\* the snapshots once the book holds none of their pairs: the book object
\* was replaced, or the snapshots were serialised
Detach(history) ==
    [ i \in 1..Len(history) |->
        [ history[i] EXCEPT !.shared = [ bids |-> {}, asks |-> {} ] ] ]

\* side.splice(index, 1): the pair leaves the book and stays in the snapshots
Unshare(history, sideKey, price) ==
    [ i \in 1..Len(history) |->
        [ history[i] EXCEPT !.shared[sideKey] = @ \ {price} ] ]

\* side[index][1] = qty: the pair is written in place, every snapshot that
\* holds it shows the new quantity
Overwrite(history, sideKey, price, qty) ==
    [ i \in 1..Len(history) |->
        IF price \in history[i].shared[sideKey]
        THEN [ history[i] EXCEPT ![sideKey] =
                    [ j \in 1..Len(history[i][sideKey]) |->
                        IF history[i][sideKey][j][1] = price
                        THEN << price, qty >>
                        ELSE history[i][sideKey][j] ] ]
        ELSE history[i] ]

\* what the deltas of one side, applied to `side` in order, do to the snapshots
RECURSIVE TouchSide(_, _, _, _)
TouchSide(history, sideKey, side, deltas) ==
    IF deltas = << >> THEN history
    ELSE LET lvl == Head(deltas)
             index == FindIndex(side, lvl[1])
             h == IF ParseFloat(lvl[2]) = 0
                  THEN IF index > 0 THEN Unshare(history, sideKey, lvl[1]) ELSE history
                  ELSE IF index = 0 THEN history
                  ELSE Overwrite(history, sideKey, lvl[1], lvl[2])
         IN  TouchSide(h, sideKey, ApplyLevel(side, lvl), Tail(deltas))

\* the history after _applyDeltas(book, bids, asks)
TouchHistory(history, book, bids, asks) ==
    TouchSide(TouchSide(history, "bids", book.bids, bids), "asks", book.asks, asks)

\* item.timestamp > twoHoursAgo
Filter(s, twoHoursAgo) ==
    LET Recent(item) == item.timestamp > twoHoursAgo
    IN  SelectSeq(s, Recent)

\* the file _commitHistoricalDataAsync writes at time `timestamp`
Committed(history, diskData, timestamp) ==
    Slice(Filter(SortBy(Detach(history) \o diskData, "timestamp"), timestamp - TwoHours),
          DiskCap)

\* a lookup that never reads the file
GetHistoricalDataMemoryOnly(symbol, limit) ==
    Slice(IF symbol \in DOMAIN historicalData THEN historicalData[symbol] ELSE << >>, limit)

GetHistoricalData(symbol, limit) ==
    LET mem == IF symbol \in DOMAIN historicalData THEN historicalData[symbol] ELSE << >>
        combined == mem \o (IF symbol \in DOMAIN disk THEN disk[symbol] ELSE << >>)
        firstOf(ts) == CHOOSE i \in 1..Len(combined) :
                          /\ combined[i].timestamp = ts
                          /\ \A j \in 1..(i - 1) : combined[j].timestamp # ts
        keep == { i \in 1..Len(combined) : firstOf(combined[i].timestamp) = i }
        RECURSIVE Pick(_)
        Pick(i) == IF i > Len(combined) THEN << >>
                   ELSE (IF i \in keep THEN << combined[i] >> ELSE << >>) \o Pick(i + 1)
        all == IF Len(mem) < limit THEN SortBy(Pick(1), "timestamp") ELSE mem
    IN  Slice(all, limit)

Reverse(s) == [ i \in 1..Len(s) |-> s[Len(s) + 1 - i] ]

(***************************************************************************)
(* State after construction: the constructor has run _init up to its       *)
(* first network wait, so every symbol has an empty history and one        *)
(* snapshot request in flight; no exchange socket is connected yet.        *)
(***************************************************************************)
NoArg == << >>

Event(op, sym, outcome, arg) ==
    [ op |-> op, sym |-> sym, outcome |-> outcome, arg |-> arg ]

\* no concentrator in this process
NoConcentrator ==
    [ isPaused |-> FALSE, binanceWS |-> << >>, sockets |-> << >>, timers |-> << >>,
      toInit |-> << >> ]

\* no WebSocketClient in this process
NoWsClient ==
    [ option |-> << >>, maxRetries |-> << >>, retryCount |-> 0, readyState |-> "NONE",
      timer |-> FALSE, listeners |-> {}, inARow |-> 0 ]

FreeConn == [ readyState |-> "FREE", symbol |-> "", limit |-> "", snapTimer |-> FALSE ]

\* the service constructed for `symbols`, with `clients` sockets that can connect
ServiceInit(symbols, clients) ==
    /\ orderBooks = << >>
    /\ inflight = [ s \in symbols |-> [ plain |-> 1, resync |-> 0 ] ]
    /\ retryTimers = [ s \in symbols |-> 0 ]
    /\ initPending = symbols
    /\ binanceWS = [ s \in symbols |-> "NONE" ]
    /\ snapshotTimer = FALSE
    /\ historicalData = [ s \in symbols |-> << >> ]
    /\ now = 1
    /\ stream = [ s \in symbols |-> 0 ]
    /\ conn = [ c \in clients |-> FreeConn ]
    /\ sent = [ c \in clients |-> << >> ]
    /\ sub = [ c \in clients |-> NoSub ]
    /\ sendErrors = [ c \in clients |-> 0 ]
    /\ lastU = [ c \in clients |-> 0 ]
    /\ sendThrows = {}
    /\ drained = [ c \in clients |-> 0 ]
    /\ isRunning = TRUE
    /\ disk = [ s \in symbols |-> DiskData(s) ]
    /\ commitTimers = [ s \in symbols |-> 0 ]
    /\ lastEvent = Event("construct", "", "", NoArg)

\* a process that runs the service alone
InitOver(symbols, clients) ==
    /\ ServiceInit(symbols, clients)
    /\ concentrator = NoConcentrator
    /\ wsClient = NoWsClient

InitWith(clients) == InitOver(Symbols, clients)

Init == InitWith(Clients)

(***************************************************************************)
(* _resetOrderBook and the continuations waiting on it.                    *)
(***************************************************************************)
Outstanding(s) == inflight[s].plain + inflight[s].resync + retryTimers[s]

\* this.orderBooks[symbol] = { lastUpdateId, bids, asks }
InstallKeepAsks(books, symbol, snap) ==
    IF symbol \in DOMAIN books
    THEN (symbol :> [ snap EXCEPT !.asks = books[symbol].asks ]) @@ books
    ELSE (symbol :> snap) @@ books

InstallEverySymbol(books, symbol, snap) ==
    [ x \in DOMAIN books \cup {symbol} |-> snap ]

Install(books, symbol, snap) == (symbol :> snap) @@ books

\* _init past `await Promise.all(...)`: runs when the last initial request
\* has settled; connects every depth socket and starts the sampling timer
InitContinues(s) ==
    IF initPending = {s}
    THEN /\ binanceWS' = [ x \in DOMAIN binanceWS |-> "OPEN" ]
         /\ snapshotTimer' = TRUE
    ELSE UNCHANGED << binanceWS, snapshotTimer >>

\* the continuation `.then(() => this._broadcastResync(symbol))` of a request
\* made by the depth handler; it runs whether the request succeeded or not
ThenBroadcastResync(s, kind, books) ==
    IF kind = "resync"
    THEN CanSend /\ BroadcastResync(s, books)
    ELSE UNCHANGED << sent, sub, sendErrors, lastU >>

\* the response arrives: the snapshot is stored
FetchSuccess(s, kind, snap) ==
    /\ inflight[s][kind] > 0
    /\ inflight' = [ inflight EXCEPT ![s][kind] = @ - 1 ]
    /\ orderBooks' = Install(orderBooks, s, snap)
    /\ ThenBroadcastResync(s, kind, orderBooks')
    /\ initPending' = initPending \ {s}
    /\ InitContinues(s)
    /\ historicalData' = [ historicalData EXCEPT ![s] = Detach(@) ]
    /\ lastEvent' = Event("snapshot", s, kind, snap)
    /\ UNCHANGED << retryTimers, now, stream, conn,
                    sendThrows, drained, isRunning, concentrator, wsClient, disk, commitTimers >>

\* a failure handler that swallows the error and schedules nothing
FetchFailNoRetry(s, kind) ==
    /\ inflight[s][kind] > 0
    /\ inflight' = [ inflight EXCEPT ![s][kind] = @ - 1 ]
    /\ ThenBroadcastResync(s, kind, orderBooks)
    /\ initPending' = initPending \ {s}
    /\ InitContinues(s)
    /\ lastEvent' = Event("fetchFailed", s, kind, NoArg)
    /\ UNCHANGED << orderBooks, retryTimers, historicalData, now, stream, conn,
                    sendThrows, drained, isRunning, concentrator, wsClient, disk, commitTimers >>

\* the request fails: a retry is scheduled, the error is swallowed
FetchFail(s, kind) ==
    /\ inflight[s][kind] > 0
    /\ inflight' = [ inflight EXCEPT ![s][kind] = @ - 1 ]
    /\ retryTimers' = [ retryTimers EXCEPT ![s] = @ + 1 ]
    /\ ThenBroadcastResync(s, kind, orderBooks)
    /\ initPending' = initPending \ {s}
    /\ InitContinues(s)
    /\ lastEvent' = Event("fetchFailed", s, kind, NoArg)
    /\ UNCHANGED << orderBooks, historicalData, now, stream, conn,
                    sendThrows, drained, isRunning, concentrator, wsClient, disk, commitTimers >>

\* setTimeout(() => this._resetOrderBook(symbol), 5000) fires
RetryFetch(s) ==
    /\ retryTimers[s] > 0
    /\ retryTimers' = [ retryTimers EXCEPT ![s] = @ - 1 ]
    /\ inflight' = [ inflight EXCEPT ![s].plain = @ + 1 ]
    /\ lastEvent' = Event("retry", s, "", NoArg)
    /\ UNCHANGED << orderBooks, initPending, binanceWS, snapshotTimer,
                    historicalData, now, stream, conn, sent, sub, sendErrors, lastU,
                    sendThrows, drained, isRunning, concentrator, wsClient, disk, commitTimers >>

(***************************************************************************)
(* The depth socket of a symbol.                                           *)
(***************************************************************************)
\* data.U <= book.lastUpdateId + 1 && data.u >= book.lastUpdateId + 1
ContinuousLowOnly(book, d) == d.U <= book.lastUpdateId + 1

ContinuousHighOnly(book, d) == d.u >= book.lastUpdateId + 1

Continuous(book, d) ==
    d.U <= book.lastUpdateId + 1 /\ d.u >= book.lastUpdateId + 1

\* data.U > book.lastUpdateId + 1
FutureOffByOne(book, d) == d.U > book.lastUpdateId + 2

FutureOrStale(book, d) ==
    d.U > book.lastUpdateId + 1 \/ d.u < book.lastUpdateId + 1

Future(book, d) == d.U > book.lastUpdateId + 1

\* book.lastUpdateId = data.u
AdvanceToLow(book, d) == [ book EXCEPT !.lastUpdateId = d.U ]

Advance(book, d) == [ book EXCEPT !.lastUpdateId = d.u ]

\* ws.on('message') for a depthUpdate event
OnDepthUpdate(s, d) ==
    /\ binanceWS[s] = "OPEN"
    /\ IF s \notin DOMAIN orderBooks
       THEN /\ lastEvent' = Event("depthUpdate", s, "nobook", d)
            /\ UNCHANGED << orderBooks, inflight, historicalData, sent, sub, sendErrors, lastU >>
       ELSE LET book == orderBooks[s]
            IN  IF Continuous(book, d)
                THEN /\ CanSend
                     /\ orderBooks' = [ orderBooks EXCEPT ![s] =
                            Advance(ApplyDeltas(book, d.b, d.a), d) ]
                     /\ historicalData' = [ historicalData EXCEPT ![s] =
                            TouchHistory(@, book, d.b, d.a) ]
                     /\ BroadcastLiveUpdate(s, d)
                     /\ lastEvent' = Event("depthUpdate", s, "applied", d)
                     /\ UNCHANGED inflight
                ELSE IF Future(book, d)
                THEN /\ Outstanding(s) < MaxFetch
                     /\ inflight' = [ inflight EXCEPT ![s].resync = @ + 1 ]
                     /\ lastEvent' = Event("depthUpdate", s, "gap", d)
                     /\ UNCHANGED << orderBooks, historicalData, sent, sub, sendErrors, lastU >>
                ELSE /\ lastEvent' = Event("depthUpdate", s, "stale", d)
                     /\ UNCHANGED << orderBooks, inflight, historicalData, sent, sub, sendErrors, lastU >>
    /\ UNCHANGED << retryTimers, initPending, binanceWS, snapshotTimer,
                    now, conn,
                    sendThrows, drained, isRunning, concentrator, wsClient, disk, commitTimers >>

\* a depth event of a feed whose order is left open: the position of the
\* stream is not followed
FeedMessage(s, d) == OnDepthUpdate(s, d) /\ UNCHANGED stream

\* a depth event of the exchange's stream: events come in the order of their
\* update ids (each starts after the last one delivered; events can be missed)
StreamMessage(s, d) ==
    /\ d.U > stream[s]
    /\ OnDepthUpdate(s, d)
    /\ stream' = [ stream EXCEPT ![s] = d.u ]

\* ws.on('close'): a reconnect is scheduled
FeedClose(s) ==
    /\ binanceWS[s] = "OPEN"
    /\ binanceWS' = [ binanceWS EXCEPT ![s] = "CLOSED" ]
    /\ lastEvent' = Event("feedClose", s, "", NoArg)
    /\ UNCHANGED << orderBooks, inflight, retryTimers, initPending, snapshotTimer,
                    historicalData, now, stream, conn, sent, sub, sendErrors, lastU,
                    sendThrows, drained, isRunning, concentrator, wsClient, disk, commitTimers >>

\* setTimeout(() => this._connectDepthWS(symbol), 5000) fires
FeedReconnect(s) ==
    /\ binanceWS[s] = "CLOSED"
    /\ binanceWS' = [ binanceWS EXCEPT ![s] = "OPEN" ]
    /\ lastEvent' = Event("feedReconnect", s, "", NoArg)
    /\ UNCHANGED << orderBooks, inflight, retryTimers, initPending, snapshotTimer,
                    historicalData, now, stream, conn, sent, sub, sendErrors, lastU,
                    sendThrows, drained, isRunning, concentrator, wsClient, disk, commitTimers >>

\* JSON.parse(msg) throws: the frames of FeedTexts that are no JSON text
JsonParseThrows(msg) ==
    CASE msg = "" -> TRUE
      [] msg = "<html>" -> TRUE
      [] msg = "{\"e\":\"depthUpdate\"," -> TRUE
      [] msg = "{\"e\":\"trade\"}" -> FALSE
      [] msg = "{\"result\":null,\"id\":1}" -> FALSE

\* frames that are no depth event: no JSON, cut off, another event, no event
FeedTexts ==
    { "", "<html>", "{\"e\":\"depthUpdate\",", "{\"e\":\"trade\"}",
      "{\"result\":null,\"id\":1}" }

\* a handler without the try/catch: the exception reaches the socket, which
\* emits 'error' and is closed
FeedTextUncaught(s, msg) ==
    /\ binanceWS[s] = "OPEN"
    /\ binanceWS' = [ binanceWS EXCEPT ![s] =
                        IF JsonParseThrows(msg) THEN "CLOSED" ELSE @ ]
    /\ lastEvent' = Event("message", s,
                          IF JsonParseThrows(msg) THEN "unparseable" ELSE "otherEvent", msg)
    /\ UNCHANGED << orderBooks, inflight, retryTimers, initPending, snapshotTimer,
                    historicalData, now, stream, conn, sent, sub, sendErrors, lastU,
                    sendThrows, drained, isRunning, concentrator, wsClient, disk, commitTimers >>

\* ws.on('message') for a frame that is no depth event: JSON.parse throws
\* and the catch logs, or data.e !== 'depthUpdate' and the handler returns
FeedText(s, msg) ==
    /\ binanceWS[s] = "OPEN"
    /\ lastEvent' = Event("message", s,
                          IF JsonParseThrows(msg) THEN "unparseable" ELSE "otherEvent", msg)
    /\ UNCHANGED << orderBooks, inflight, retryTimers, initPending, binanceWS, snapshotTimer,
                    historicalData, now, stream, conn, sent, sub, sendErrors, lastU,
                    sendThrows, drained, isRunning, concentrator, wsClient, disk, commitTimers >>

(***************************************************************************)
(* The history sampling timer.                                             *)
(***************************************************************************)
SnapshotTick ==
    /\ snapshotTimer
    /\ now <= MaxTime
    /\ historicalData' = [ s \in DOMAIN historicalData |->
            IF s \in DOMAIN orderBooks
            THEN SaveSnapshot(historicalData[s], orderBooks[s], now)
            ELSE historicalData[s] ]
    /\ commitTimers' = [ s \in DOMAIN commitTimers |->
            IF s \in DOMAIN orderBooks /\ Len(historicalData'[s]) % CommitEvery = 0
            THEN commitTimers[s] + 1
            ELSE commitTimers[s] ]
    /\ now' = now + 1
    /\ lastEvent' = Event("sample", "", "", NoArg)
    /\ UNCHANGED << orderBooks, inflight, retryTimers, initPending, binanceWS,
                    snapshotTimer, stream, conn, sent, sub, sendErrors, lastU,
                    sendThrows, drained, isRunning, concentrator, wsClient, disk >>

\* a commit whose failure takes the in-memory history with it
CommitHistoricalDataLosing(s, ok) ==
    /\ commitTimers[s] > 0
    /\ commitTimers' = [ commitTimers EXCEPT ![s] = @ - 1 ]
    /\ disk' = IF ok
               THEN [ disk EXCEPT ![s] = Committed(historicalData[s], disk[s], now) ]
               ELSE disk
    /\ historicalData' = IF ok THEN historicalData
                         ELSE [ historicalData EXCEPT ![s] = << >> ]
    /\ lastEvent' = Event("commit", s, IF ok THEN "written" ELSE "failed", NoArg)
    /\ UNCHANGED << orderBooks, inflight, retryTimers, initPending, binanceWS,
                    snapshotTimer, now, stream, conn, sent, sub,
                    sendErrors, lastU, sendThrows, drained, isRunning, concentrator, wsClient >>

\* the timeout of _commitHistoricalDataAsync fires; the file operations
\* succeed or one of them throws, which is caught and logged
CommitHistoricalData(s, ok) ==
    /\ commitTimers[s] > 0
    /\ commitTimers' = [ commitTimers EXCEPT ![s] = @ - 1 ]
    /\ disk' = IF ok
               THEN [ disk EXCEPT ![s] = Committed(historicalData[s], disk[s], now) ]
               ELSE disk
    /\ lastEvent' = Event("commit", s, IF ok THEN "written" ELSE "failed", NoArg)
    /\ UNCHANGED << orderBooks, inflight, retryTimers, initPending, binanceWS,
                    snapshotTimer, historicalData, now, stream, conn, sent, sub,
                    sendErrors, lastU, sendThrows, drained, isRunning, concentrator, wsClient >>

(***************************************************************************)
(* Local clients.                                                          *)
(***************************************************************************)
\* the `historical` messages of a backfill, oldest first, then the marker
Backfill(symbol, limit) ==
    LET reversedSnapshots == Reverse(GetHistoricalData(symbol, limit))
    IN  [ i \in 1..Len(reversedSnapshots) |->
            HistoricalMsg(reversedSnapshots[i], i, Len(reversedSnapshots)) ]
            \o << HistoricalCompleteMsg >>

\* !symbol || !this.orderBooks[symbol]
UnknownSymbolOnlyMissing(symbol) == symbol = ""

\* a test of the configured symbols instead of the books
UnknownSymbolNotConfigured(symbol) == symbol = "" \/ symbol \notin DOMAIN inflight

UnknownSymbol(symbol) == symbol = "" \/ symbol \notin DOMAIN orderBooks

\* limit && parseInt(limit) > 0
WantsBackfill(limitParam) == limitParam # "" /\ ParseInt(limitParam) > 0

\* localWSS.on('connection'); "" stands for an absent query parameter
HandleClient(c, symbolParam, limitParam) ==
    LET symbol == IF symbolParam = "" THEN "" ELSE ToUpperCase(symbolParam)
    IN  /\ isRunning
        /\ conn[c].readyState = "FREE"
        /\ IF UnknownSymbol(symbol)
           THEN /\ conn' = [ conn EXCEPT ![c] =
                        [ readyState |-> "CLOSED", symbol |-> "", limit |-> limitParam,
                          snapTimer |-> FALSE ] ]
                /\ sent' = [ sent EXCEPT ![c] = << Header(ErrorMsg) >> ]
                /\ sub' = [ sub EXCEPT ![c] = OnMessage(@, ErrorMsg) ]
                /\ lastU' = [ lastU EXCEPT ![c] = 0 ]
                /\ lastEvent' = Event("connect", symbol, "rejected",
                                      [ client |-> c, limit |-> limitParam ])
           ELSE LET backfill == WantsBackfill(limitParam)
                    ms == IF backfill
                          THEN Backfill(symbol, ParseInt(limitParam))
                          ELSE SendSnapshotToClient("OPEN", symbol)
                IN  /\ conn' = [ conn EXCEPT ![c] =
                            [ readyState |-> "OPEN", symbol |-> symbol,
                              limit |-> limitParam, snapTimer |-> backfill ] ]
                    /\ sent' = [ sent EXCEPT ![c] = Headers(ms) ]
                    /\ sub' = [ sub EXCEPT ![c] = OnMessages(@, ms) ]
                    /\ lastU' = [ lastU EXCEPT ![c] = LastUAfter(0, ms) ]
                    /\ lastEvent' = Event("connect", symbol, "accepted",
                                          [ client |-> c, limit |-> limitParam ])
        /\ UNCHANGED << orderBooks, inflight, retryTimers, initPending, binanceWS,
                        snapshotTimer, historicalData, now, stream, sendErrors,
                        sendThrows, drained, isRunning, concentrator, wsClient, disk, commitTimers >>

\* the 50 ms timer of a backfilled client fires
LiveSnapshotTimer(c) ==
    LET tried == SendSnapshotToClient(conn[c].readyState, conn[c].symbol)
        ms == IF c \in sendThrows THEN << >> ELSE tried
    IN  /\ conn[c].snapTimer
        /\ conn' = [ conn EXCEPT ![c].snapTimer = FALSE ]
        /\ sent' = [ sent EXCEPT ![c] = @ \o Headers(ms) ]
        /\ sub' = [ sub EXCEPT ![c] = OnMessages(@, ms) ]
        /\ lastU' = [ lastU EXCEPT ![c] = LastUAfter(@, ms) ]
        /\ sendErrors' = [ sendErrors EXCEPT ![c] = @ + Len(tried) - Len(ms) ]
        /\ lastEvent' = Event("liveSnapshotTimer", conn[c].symbol, "", NoArg)
        /\ UNCHANGED << orderBooks, inflight, retryTimers, initPending, binanceWS,
                        snapshotTimer, historicalData, now, stream,
                        sendThrows, drained, isRunning, concentrator, wsClient, disk, commitTimers >>

\* the client goes away
ClientClose(c) ==
    /\ conn[c].readyState = "OPEN"
    /\ conn' = [ conn EXCEPT ![c].readyState = "CLOSED" ]
    /\ lastU' = [ lastU EXCEPT ![c] = 0 ]
    /\ lastEvent' = Event("clientClose", conn[c].symbol, "", NoArg)
    /\ UNCHANGED << orderBooks, inflight, retryTimers, initPending, binanceWS,
                    snapshotTimer, historicalData, now, stream, sent, sub, sendErrors,
                    sendThrows, drained, isRunning, concentrator, wsClient, disk, commitTimers >>

\* client.send() starts to throw on an open socket
SendBreaks(c) ==
    /\ conn[c].readyState = "OPEN"
    /\ c \notin sendThrows
    /\ sendThrows' = sendThrows \cup {c}
    /\ lastEvent' = Event("sendBreaks", conn[c].symbol, "", NoArg)
    /\ UNCHANGED << orderBooks, inflight, retryTimers, initPending, binanceWS,
                    snapshotTimer, historicalData, now, stream, conn, sent, sub,
                    sendErrors, lastU, drained, isRunning, concentrator, wsClient, disk, commitTimers >>

\* the client reads the next message written to its socket
Drain(c) ==
    /\ drained[c] < Len(sent[c])
    /\ drained' = [ drained EXCEPT ![c] = @ + 1 ]
    /\ lastEvent' = Event("drain", conn[c].symbol, "", NoArg)
    /\ UNCHANGED << orderBooks, inflight, retryTimers, initPending, binanceWS,
                    snapshotTimer, historicalData, now, stream, conn, sent, sub,
                    sendErrors, lastU, sendThrows, isRunning, concentrator, wsClient, disk, commitTimers >>

(***************************************************************************)
(* stop(): clears the sampling interval, commits the histories, closes     *)
(* the depth sockets (whose close handlers run as for any close), closes   *)
(* the clients and the local server.                                       *)
(***************************************************************************)
Stop ==
    /\ isRunning
    /\ isRunning' = FALSE
    /\ snapshotTimer' = FALSE
    /\ commitTimers' = [ s \in DOMAIN commitTimers |->
            IF historicalData[s] # << >> THEN commitTimers[s] + 1 ELSE commitTimers[s] ]
    /\ binanceWS' = [ s \in DOMAIN binanceWS |->
            IF binanceWS[s] = "OPEN" THEN "CLOSED" ELSE binanceWS[s] ]
    /\ conn' = [ c \in DOMAIN conn |->
            IF conn[c].readyState = "OPEN"
            THEN [ conn[c] EXCEPT !.readyState = "CLOSED" ]
            ELSE conn[c] ]
    /\ lastEvent' = Event("stop", "", "", NoArg)
    /\ UNCHANGED << orderBooks, inflight, retryTimers, initPending, historicalData,
                    now, stream, sent, sub, sendErrors, lastU, sendThrows, drained,
                    disk, concentrator, wsClient >>

(***************************************************************************)
(* Specifications. Each explores the service under a set of exchange       *)
(* answers, depth events and client requests.                              *)
(***************************************************************************)
Kinds == {"plain", "resync"}

\* snapshot requests, the depth socket
FetchNext(snapshots) ==
    \/ \E s \in DOMAIN inflight, k \in Kinds, snap \in snapshots : FetchSuccess(s, k, snap)
    \/ \E s \in DOMAIN inflight, k \in Kinds : FetchFail(s, k)
    \/ \E s \in DOMAIN inflight : RetryFetch(s)

SyncNext(snapshots, deltas) ==
    \/ FetchNext(snapshots)
    \/ \E s \in DOMAIN inflight, d \in deltas : FeedMessage(s, d)

\* snapshot requests, the depth socket fed by the exchange's stream
StreamNext(snapshots, deltas) ==
    \/ FetchNext(snapshots)
    \/ \E s \in DOMAIN inflight, d \in deltas : StreamMessage(s, d)

FeedNext ==
    \/ \E s \in DOMAIN inflight : FeedClose(s)
    \/ \E s \in DOMAIN inflight : FeedReconnect(s)

\* local clients
ClientNext(symbolParams, limitParams) ==
    \/ \E c \in DOMAIN conn, sp \in symbolParams, lp \in limitParams : HandleClient(c, sp, lp)
    \/ \E c \in DOMAIN conn : ClientClose(c)

\* history sampling and the live snapshot that follows a backfill
BackfillNext ==
    \/ SnapshotTick
    \/ \E c \in DOMAIN conn : LiveSnapshotTimer(c)

(***************************************************************************)
(* Spec: synchronisation and live fan-out on a small book (one bid price,  *)
(* one ask price); clients connect live-only.                              *)
(***************************************************************************)
Snapshots ==
    { s \in SnapshotsOver({"100.20"}, {"100.30"}, {"1.00"}) : s.asks # << >> }
Deltas == DeltasOver(ChangesUpTo(1, {"100.20"}, {"2.00"}), {<< >>})

Next ==
    \/ SyncNext(Snapshots, Deltas)
    \/ FeedNext
    \/ ClientNext({"", "btcusdt", "dogeusdt"}, {""})

Spec == Init /\ [][Next]_vars

(***************************************************************************)
(* SpecBackfill: clients that ask for history, while the book is sampled   *)
(* and the feed goes on.                                                   *)
(***************************************************************************)
BackfillSnapshots == { s \in Snapshots : s.lastUpdateId = 0 /\ s.bids # << >> }
BackfillDeltas ==
    { d \in Deltas : d.U = d.u /\ d.U # 2 /\ d.b = << << "100.20", "2.00" >> >> }

NextBackfill ==
    \/ SyncNext(BackfillSnapshots, BackfillDeltas)
    \/ ClientNext({"btcusdt"}, {"0", "1", "2"})
    \/ BackfillNext

SpecBackfill == Init /\ [][NextBackfill]_vars

(***************************************************************************)
(* SpecDeltas: one depth event on a live book, both drawn from a richer    *)
(* set: two bid prices, up to MaxChanges bid changes in one event. The     *)
(* initial states are those in which the snapshot has just been loaded,    *)
(* the depth socket is connected and one client has connected live-only.   *)
(***************************************************************************)
RichSnapshots == SnapshotsOver(BidPrices, {"100.30"}, PosQtys)
RichDeltas ==
    { d \in DeltasOver(ChangesUpTo(MaxChanges, BidPrices, Qtys),
                       ChangesUpTo(1, {"100.30"}, Qtys)) : d.U = d.u }

InitDeltas ==
    \E snap \in RichSnapshots :
        /\ orderBooks = [ s \in Symbols |-> snap ]
        /\ inflight = [ s \in Symbols |-> [ plain |-> 0, resync |-> 0 ] ]
        /\ retryTimers = [ s \in Symbols |-> 0 ]
        /\ initPending = {}
        /\ binanceWS = [ s \in Symbols |-> "OPEN" ]
        /\ snapshotTimer = TRUE
        /\ historicalData = [ s \in Symbols |-> << >> ]
        /\ now = 1
        /\ stream = [ s \in Symbols |-> 0 ]
        /\ conn = [ c \in Clients |->
                      [ readyState |-> "OPEN", symbol |-> "BTCUSDT", limit |-> "",
                        snapTimer |-> FALSE ] ]
        /\ sent = [ c \in Clients |-> << Header(LiveSnapshotMsg(snap)) >> ]
        /\ sub = [ c \in Clients |-> HandleSnapshot(NoSub, LiveSnapshotMsg(snap)) ]
        /\ sendErrors = [ c \in Clients |-> 0 ]
        /\ lastU = [ c \in Clients |-> 0 ]
        /\ sendThrows = {}
        /\ drained = [ c \in Clients |-> 0 ]
        /\ isRunning = TRUE
        /\ concentrator = NoConcentrator
        /\ wsClient = NoWsClient
        /\ disk = [ s \in Symbols |-> DiskData(s) ]
        /\ commitTimers = [ s \in Symbols |-> 0 ]
        /\ lastEvent = Event("connect", "BTCUSDT", "accepted",
                             [ client |-> 1, limit |-> "" ])

NextDeltas ==
    /\ lastEvent.op = "connect"
    /\ \E s \in Symbols, d \in RichDeltas : FeedMessage(s, d)

SpecDeltas == InitDeltas /\ [][NextDeltas]_vars

(***************************************************************************)
(* SpecBook: snapshot requests and the depth socket on a book with two     *)
(* prices a side, no client connected.                                     *)
(***************************************************************************)
BookSnapshots == SnapshotsOver(BidPrices, AskPrices, {"1.00"})
BookDeltas ==
    { d \in DeltasOver(ChangesUpTo(1, BidPrices, {"0.00", "1.00"}),
                       ChangesUpTo(1, AskPrices, {"0.00", "1.00"})) :
        d.U = d.u /\ (d.b = << >> \/ d.a = << >>) }

NextBook == SyncNext(BookSnapshots, BookDeltas)

SpecBook == Init /\ [][NextBook]_vars

(***************************************************************************)
(* Properties of the depth handler (Spec).                                 *)
(***************************************************************************)
\* the step is the depth handler of symbol s
DepthStep(s) == lastEvent'.op = "depthUpdate" /\ lastEvent'.sym = s

HasOpenClient(s) ==
    \E c \in DOMAIN conn : conn[c].symbol = s /\ conn[c].readyState = "OPEN"

FetchesInFlight(f, s) == f[s].plain + f[s].resync

\* C1: a depth event changes a symbol's book (levels or lastUpdateId) only if
\* the book exists and U <= lastUpdateId + 1 <= u held when the event was
\* processed.
C1_AppliedOnlyIfContinuous ==
    [][ \A s \in Symbols :
            (DepthStep(s) /\ orderBooks' # orderBooks)
                => /\ s \in DOMAIN orderBooks
                   /\ lastEvent'.arg.U <= orderBooks[s].lastUpdateId + 1
                   /\ orderBooks[s].lastUpdateId + 1 <= lastEvent'.arg.u ]_vars

\* a delta covering several update ids has been applied to a book
C1_Witness ==
    /\ lastEvent.op = "depthUpdate"
    /\ lastEvent.outcome = "applied"
    /\ lastEvent.arg.U < lastEvent.arg.u
    /\ lastEvent.arg.b # << >>
    /\ orderBooks[lastEvent.sym].lastUpdateId = lastEvent.arg.u

\* C2: when a delta that satisfies the continuity test is processed, the
\* book's lastUpdateId becomes its u, which is larger than the id before; so
\* lastUpdateId strictly increases over the deltas applied between snapshots.
C2_LastUpdateIdIsU ==
    [][ \A s \in Symbols :
            ( /\ DepthStep(s)
              /\ s \in DOMAIN orderBooks
              /\ lastEvent'.arg.U <= orderBooks[s].lastUpdateId + 1
              /\ orderBooks[s].lastUpdateId + 1 <= lastEvent'.arg.u )
                => /\ orderBooks'[s].lastUpdateId = lastEvent'.arg.u
                   /\ orderBooks'[s].lastUpdateId > orderBooks[s].lastUpdateId ]_vars

\* a delta U..u with 1 < U < u has been applied on a book whose id was
\* U - 1 or more, and the id is now u
C2_Witness ==
    /\ lastEvent.op = "depthUpdate"
    /\ lastEvent.outcome = "applied"
    /\ lastEvent.arg.U > 1
    /\ lastEvent.arg.U < lastEvent.arg.u
    /\ orderBooks[lastEvent.sym].lastUpdateId = lastEvent.arg.u
    /\ HasOpenClient(lastEvent.sym)

\* C3: a depth event with U > lastUpdateId + 1 leaves the books as they were,
\* sends nothing to any client, and starts one more snapshot request for the
\* symbol.
C3_GapResyncs ==
    [][ \A s \in Symbols :
            ( /\ DepthStep(s)
              /\ s \in DOMAIN orderBooks
              /\ lastEvent'.arg.U > orderBooks[s].lastUpdateId + 1 )
                => /\ orderBooks' = orderBooks
                   /\ sent' = sent
                   /\ FetchesInFlight(inflight', s) = FetchesInFlight(inflight, s) + 1 ]_vars

\* a gap was met while a client of the symbol was connected
C3_Witness ==
    /\ lastEvent.op = "depthUpdate"
    /\ lastEvent.outcome = "gap"
    /\ lastEvent.arg.U > orderBooks[lastEvent.sym].lastUpdateId + 1
    /\ inflight[lastEvent.sym].resync > 0
    /\ HasOpenClient(lastEvent.sym)

\* C4: a depth event with u < lastUpdateId + 1 changes nothing: books,
\* messages sent, subscribers, requests in flight and retry timers stay.
C4_StaleIsNoOp ==
    [][ \A s \in Symbols :
            ( /\ DepthStep(s)
              /\ s \in DOMAIN orderBooks
              /\ lastEvent'.arg.u < orderBooks[s].lastUpdateId + 1 )
                => /\ orderBooks' = orderBooks
                   /\ sent' = sent
                   /\ sub' = sub
                   /\ inflight' = inflight
                   /\ retryTimers' = retryTimers ]_vars

\* a stale delta that names a level was processed while a client of the
\* symbol was connected
C4_Witness ==
    /\ lastEvent.op = "depthUpdate"
    /\ lastEvent.outcome = "stale"
    /\ lastEvent.arg.u < orderBooks[lastEvent.sym].lastUpdateId + 1
    /\ lastEvent.arg.b # << >>
    /\ HasOpenClient(lastEvent.sym)

(***************************************************************************)
(* Properties of _applyDeltas (SpecDeltas; SpecBook for the order).        *)
(***************************************************************************)
PricesOf(side) == { side[i][1] : i \in 1..Len(side) }

QtysAt(side, price) == { side[i][2] : i \in { j \in 1..Len(side) : side[j][1] = price } }

CountAt(side, price) == Cardinality({ i \in 1..Len(side) : side[i][1] = price })

\* the quantity of the last change that names the price
LastQty(changes, price) ==
    LET last == CHOOSE i \in 1..Len(changes) :
                    /\ changes[i][1] = price
                    /\ \A j \in (i + 1)..Len(changes) : changes[j][1] # price
    IN  changes[last][2]

\* the depth handler has just applied a continuous delta to the book of s
AppliedStep(s) ==
    /\ DepthStep(s)
    /\ s \in DOMAIN orderBooks
    /\ lastEvent'.arg.U <= orderBooks[s].lastUpdateId + 1
    /\ orderBooks[s].lastUpdateId + 1 <= lastEvent'.arg.u

ZeroRemoves(before, after, changes) ==
    /\ \A p \in PricesOf(changes) :
            ParseFloat(LastQty(changes, p)) = 0 => p \notin PricesOf(after)
    /\ ( \A i \in 1..Len(changes) :
            ParseFloat(changes[i][2]) = 0 /\ changes[i][1] \notin PricesOf(before) )
         => after = before

\* C5: in an applied delta, a price whose (last) entry has quantity 0 has no
\* level on that side afterwards, and a side whose entries are all
\* quantity-0 entries for prices it does not hold is left as it was.
C5_ZeroQuantityRemoves ==
    [][ \A s \in Symbols :
            AppliedStep(s)
                => /\ ZeroRemoves(orderBooks[s].bids, orderBooks'[s].bids, lastEvent'.arg.b)
                   /\ ZeroRemoves(orderBooks[s].asks, orderBooks'[s].asks, lastEvent'.arg.a) ]_vars

\* a delta that sets a bid level and then removes it has been applied, next
\* to a removal on the ask side, and the bid price is gone
C5_Witness ==
    /\ lastEvent.op = "depthUpdate"
    /\ lastEvent.outcome = "applied"
    /\ lastEvent.arg.b = << << "100.20", "1.00" >>, << "100.20", "0.00" >> >>
    /\ lastEvent.arg.a = << << "100.30", "0.00" >> >>
    /\ "100.20" \notin PricesOf(orderBooks[lastEvent.sym].bids)
    /\ "100.10" \in PricesOf(orderBooks[lastEvent.sym].bids)

PositiveSets(before, after, changes) ==
    /\ \A p \in PricesOf(changes) :
            ParseFloat(LastQty(changes, p)) > 0
                => CountAt(after, p) = 1 /\ QtysAt(after, p) = { LastQty(changes, p) }
    /\ \A p \in (PricesOf(before) \cup PricesOf(after)) \ PricesOf(changes) :
            CountAt(after, p) = CountAt(before, p) /\ QtysAt(after, p) = QtysAt(before, p)

\* C6: in an applied delta, a price whose last entry has a quantity > 0 has
\* exactly one level on that side afterwards, with that quantity, and the
\* prices the delta does not name keep their levels and quantities.
C6_PositiveQuantitySets ==
    [][ \A s \in Symbols :
            AppliedStep(s)
                => /\ PositiveSets(orderBooks[s].bids, orderBooks'[s].bids, lastEvent'.arg.b)
                   /\ PositiveSets(orderBooks[s].asks, orderBooks'[s].asks, lastEvent'.arg.a) ]_vars

\* a delta naming one bid price twice has been applied: the later quantity
\* stands, next to the level of the other bid price
C6_Witness ==
    /\ lastEvent.op = "depthUpdate"
    /\ lastEvent.outcome = "applied"
    /\ lastEvent.arg.b = << << "100.20", "1.00" >>, << "100.20", "2.00" >> >>
    /\ orderBooks[lastEvent.sym].bids = << << "100.20", "2.00" >>, << "100.10", "1.00" >> >>
    /\ orderBooks[lastEvent.sym].asks # << >>

StrictlyOrdered(side, cmp) ==
    \A i \in 1..(Len(side) - 1) : Compare(cmp, side[i], side[i + 1]) < 0

\* C7: every book has its bids strictly descending and its asks strictly
\* ascending by price (so no price twice on a side).
C7_SidesSorted ==
    \A s \in DOMAIN orderBooks :
        /\ StrictlyOrdered(orderBooks[s].bids, "bids")
        /\ StrictlyOrdered(orderBooks[s].asks, "asks")

\* a delta has added a level to a side that then holds two levels
C7_Witness ==
    /\ lastEvent.op = "depthUpdate"
    /\ lastEvent.outcome = "applied"
    /\ lastEvent.arg.b = << << "100.20", "1.00" >> >>
    /\ orderBooks[lastEvent.sym].bids = << << "100.20", "1.00" >>, << "100.10", "1.00" >> >>
    /\ Len(orderBooks[lastEvent.sym].asks) = 2

(***************************************************************************)
(* Properties of _resetOrderBook and of what a subscriber sees.            *)
(***************************************************************************)
\* C8: in the state a snapshot response leaves behind, the symbol's book is
\* that snapshot: its id, its bids and its asks, and nothing of the book
\* before. (The response is handled in one task; the depth handler, a
\* connecting client and the history timer run before or after it.)
C8_SnapshotReplacesBook ==
    lastEvent.op = "snapshot"
        => /\ lastEvent.sym \in DOMAIN orderBooks
           /\ orderBooks[lastEvent.sym] = lastEvent.arg

\* a snapshot requested after a gap, so replacing a book, has been installed;
\* it has two bid levels and no ask
C8_Witness ==
    /\ lastEvent.op = "snapshot"
    /\ lastEvent.outcome = "resync"
    /\ Len(lastEvent.arg.bids) = 2
    /\ lastEvent.arg.asks = << >>
    /\ lastEvent.arg.lastUpdateId = 0
    /\ orderBooks[lastEvent.sym].asks = << >>

LevelSet(side) == { side[i] : i \in 1..Len(side) }

Joined(log) == \E i \in 1..Len(log) : log[i].type = "live_snapshot"

\* C9: whenever a message is written to a subscriber that has had its
\* live_snapshot, the subscriber's book (snapshot messages replace it, depth
\* updates are applied to it) then has the levels of the server's book.
C9_ConsistentView ==
    [][ \A c \in DOMAIN conn :
            (sent'[c] # sent[c] /\ Joined(sent'[c]))
                => /\ LevelSet(sub'[c].bids)
                        = LevelSet(ParseLevels(orderBooks'[conn'[c].symbol].bids))
                   /\ LevelSet(sub'[c].asks)
                        = LevelSet(ParseLevels(orderBooks'[conn'[c].symbol].asks)) ]_vars

(***************************************************************************)
(* Properties of the backfill (SpecBackfill).                              *)
(***************************************************************************)
\* socket c asked for k > 0 snapshots and k were stored: it was sent k of k
Backfilled(c) ==
    /\ ParseInt(conn[c].limit) > 0
    /\ sent[c] # << >>
    /\ sent[c][1].type = "historical"
    /\ sent[c][1].total = ParseInt(conn[c].limit)

\* the log starts with k historical messages numbered 1..k of k, oldest
\* first; then historical_complete; then live_snapshot; then depth_update and
\* resync messages only
BackfillOrdered(log, k) ==
    /\ Len(log) >= k + 1
    /\ \A i \in 1..k :
            log[i].type = "historical" /\ log[i].sequence = i /\ log[i].total = k
    /\ \A i \in 1..(k - 1) : log[i].ts < log[i + 1].ts
    /\ log[k + 1].type = "historical_complete"
    /\ Len(log) >= k + 2 => log[k + 2].type = "live_snapshot"
    /\ \A i \in (k + 3)..Len(log) : log[i].type \in {"depth_update", "resync"}

\* C10: a client that connects with limit = k > 0 while k or more snapshots
\* are stored is sent exactly the k newest as historical messages, oldest
\* first, and its messages come in the order of BackfillOrdered from then on;
\* so no depth_update or resync precedes its live_snapshot.
C10_BackfillThenLive ==
    /\ \A c \in DOMAIN conn :
            Backfilled(c) => BackfillOrdered(sent[c], ParseInt(conn[c].limit))
    /\ ( /\ lastEvent.op = "connect"
         /\ lastEvent.outcome = "accepted"
         /\ ParseInt(lastEvent.arg.limit) > 0
         /\ Len(historicalData[lastEvent.sym]) >= ParseInt(lastEvent.arg.limit) )
            => LET k == ParseInt(lastEvent.arg.limit)
                   log == sent[lastEvent.arg.client]
               IN  /\ Len(log) = k + 1
                   /\ \A i \in 1..k :
                        /\ log[i].type = "historical"
                        /\ log[i].ts = historicalData[lastEvent.sym][k + 1 - i].timestamp

(***************************************************************************)
(* SpecClients: two sockets connect with every kind of symbol parameter    *)
(* (absent, tracked in lower and mixed case, untracked) and without        *)
(* backfill (limit absent or "0"), while snapshots are fetched and the     *)
(* feed goes on.                                                           *)
(***************************************************************************)
TwoClients == {1, 2}

ClientDeltas == BackfillDeltas

NextClients ==
    \/ SyncNext(BackfillSnapshots, ClientDeltas)
    \/ ClientNext({"", "btcusdt", "BtcUsdt", "dogeusdt"}, {"", "0"})

SpecClients == InitWith(TwoClients) /\ [][NextClients]_vars

(***************************************************************************)
(* Properties of the connection handler (SpecClients).                     *)
(***************************************************************************)
TypesOf(log) == { log[i].type : i \in 1..Len(log) }

CountOf(log, type) == Cardinality({ i \in 1..Len(log) : log[i].type = type })

\* socket c was accepted as a subscriber without backfill
LiveOnly(c) ==
    /\ conn[c].symbol \in Symbols
    /\ conn[c].limit = "" \/ ParseInt(conn[c].limit) = 0

\* C11: a connection to a tracked symbol without limit, or with limit 0, is
\* sent live_snapshot as its first message; an accepted socket of that kind
\* has no other live_snapshot, no historical and no historical_complete
\* message, so each depth_update comes after the live_snapshot.
C11_LiveOnlySnapshotFirst ==
    /\ ( /\ lastEvent.op = "connect"
         /\ lastEvent.sym \in Symbols
         /\ lastEvent.arg.limit = "" \/ ParseInt(lastEvent.arg.limit) = 0 )
            => /\ lastEvent.outcome = "accepted"
               /\ Len(sent[lastEvent.arg.client]) = 1
               /\ sent[lastEvent.arg.client][1].type = "live_snapshot"
    /\ \A c \in DOMAIN conn :
            LiveOnly(c)
                => /\ sent[c] # << >>
                   /\ sent[c][1].type = "live_snapshot"
                   /\ CountOf(sent[c], "live_snapshot") = 1
                   /\ TypesOf(sent[c]) \subseteq {"live_snapshot", "depth_update", "resync"}

\* C12: a connection without symbol parameter, or with a symbol that is not
\* tracked, is sent the error object and closed; the error stays its only
\* message.
C12_UnknownSymbolRejected ==
    /\ (lastEvent.op = "connect" /\ lastEvent.sym \notin Symbols)
            => /\ lastEvent.outcome = "rejected"
               /\ sent[lastEvent.arg.client] = << Header(ErrorMsg) >>
               /\ conn[lastEvent.arg.client].readyState = "CLOSED"
    /\ \A c \in DOMAIN conn :
            (sent[c] # << >> /\ sent[c][1].type = "error")
                => /\ sent[c] = << Header(ErrorMsg) >>
                   /\ conn[c].readyState = "CLOSED"
                   /\ sub[c] = NoSub

\* one socket asked for an untracked symbol while the book was loaded and has
\* the error only; since then a depth_update went to the other socket
C12_Witness ==
    /\ lastEvent.op = "depthUpdate"
    /\ lastEvent.outcome = "applied"
    /\ sent[1] = << Header(ErrorMsg) >>
    /\ conn[1].readyState = "CLOSED"
    /\ conn[2].readyState = "OPEN"
    /\ Len(sent[2]) = 2
    /\ sent[2][2].type = "depth_update"

\* C13: a connection whose symbol parameter is, in any letter case, a symbol
\* the service tracks is accepted: not sent the error, not closed.
C13_TrackedSymbolAccepted ==
    (lastEvent.op = "connect" /\ lastEvent.sym \in Symbols)
        => /\ lastEvent.outcome = "accepted"
           /\ conn[lastEvent.arg.client].readyState = "OPEN"
           /\ "error" \notin TypesOf(sent[lastEvent.arg.client])

(***************************************************************************)
(* Properties of resynchronisation (Spec).                                 *)
(***************************************************************************)
\* a resync message is written to socket c in this step
ResyncSent(c) ==
    /\ Len(sent'[c]) = Len(sent[c]) + 1
    /\ sent'[c][Len(sent'[c])].type = "resync"

\* C15: a resync message is written only in the step in which a fetched
\* snapshot is installed, and it carries that snapshot (the subscriber's
\* book becomes the snapshot); the failure of a request writes none.
C15_ResyncOnlyAfterSuccess ==
    [][ \A c \in DOMAIN conn :
            ResyncSent(c)
                => /\ lastEvent'.op = "snapshot"
                   /\ sub'[c] = HandleSnapshot(sub[c], lastEvent'.arg) ]_vars

\* C16: per symbol at most one snapshot request, or retry waiting for its
\* timer, is outstanding.
C16_OneFetchOutstanding ==
    \A s \in Symbols : Outstanding(s) <= 1

(***************************************************************************)
(* SpecStream: as Spec, with the depth events in the order of the          *)
(* exchange's stream.                                                      *)
(***************************************************************************)
NextStream ==
    \/ StreamNext(Snapshots, Deltas)
    \/ FeedNext
    \/ ClientNext({"btcusdt"}, {""})

SpecStream == Init /\ [][NextStream]_vars

\* C17: while the stream is ahead of the book by more than one update id,
\* as it is from the detection of a gap to the installation of a snapshot,
\* a depth event changes no book and is sent to no client as depth_update.
C17_DroppedWhileResyncing ==
    [][ \A s \in Symbols :
            ( /\ DepthStep(s)
              /\ s \in DOMAIN orderBooks
              /\ stream[s] > orderBooks[s].lastUpdateId + 1 )
                => /\ orderBooks' = orderBooks
                   /\ \A c \in DOMAIN conn :
                        "depth_update" \notin TypesOf(SubSeq(sent'[c], Len(sent[c]) + 1, Len(sent'[c]))) ]_vars

\* a second event has arrived after a gap, before any snapshot came: it is
\* dropped too, with a client connected
C17_Witness ==
    /\ lastEvent.op = "depthUpdate"
    /\ lastEvent.outcome = "gap"
    /\ inflight[lastEvent.sym].resync >= 2
    /\ stream[lastEvent.sym] = lastEvent.arg.u
    /\ lastEvent.arg.U > orderBooks[lastEvent.sym].lastUpdateId + 2
    /\ HasOpenClient(lastEvent.sym)

(***************************************************************************)
(* The scheduling the fetch loop relies on: a retry timer that is set      *)
(* fires, and a request that is made again and again is answered at some   *)
(* point.                                                                  *)
(***************************************************************************)
FetchFairness ==
    \A s \in Symbols :
        /\ WF_vars(RetryFetch(s))
        /\ SF_vars(\E k \in Kinds, snap \in Snapshots : FetchSuccess(s, k, snap))

(***************************************************************************)
(* SpecRetryFair: snapshot requests and the stream, no client.             *)
(* SpecResyncFair: the same with a client that connects live-only.         *)
(***************************************************************************)
NextRetry == StreamNext(Snapshots, Deltas)

SpecRetryFair == Init /\ [][NextRetry]_vars /\ FetchFairness

NextResync ==
    \/ StreamNext(Snapshots, Deltas)
    \/ \E c \in DOMAIN conn : HandleClient(c, "btcusdt", "")

SpecResyncFair == Init /\ [][NextResync]_vars /\ FetchFairness

\* the depth handler has just met a gap for s
GapDetected(s) ==
    /\ lastEvent.op = "depthUpdate"
    /\ lastEvent.sym = s
    /\ lastEvent.outcome = "gap"

\* a snapshot for s has just been installed and every open subscriber of s
\* has a resync as its latest message and holds that snapshot
ResyncDelivered(s) ==
    /\ lastEvent.op = "snapshot"
    /\ lastEvent.sym = s
    /\ \A c \in SymbolClients(s) :
            /\ sent[c] # << >>
            /\ sent[c][Len(sent[c])].type = "resync"
            /\ sub[c] = HandleSnapshot(sub[c], orderBooks[s])

\* C14: a gap leads to the installation of a snapshot that is sent as resync
\* to every open subscriber of the symbol (as far as the exploration follows
\* the sockets: while CanSend).
C14_GapLeadsToResync ==
    \A s \in Symbols : GapDetected(s) ~> (ResyncDelivered(s) \/ ~ CanSend)

\* C18: the failure of a request leaves a retry timer set, every symbol gets
\* its book, and whenever a request or a retry is outstanding for a symbol
\* (at startup, after a gap, after a failure) a snapshot is installed for it
\* later on.
C18_RetriedUntilInstalled ==
    /\ [](lastEvent.op = "fetchFailed" => retryTimers[lastEvent.sym] > 0)
    /\ \A s \in Symbols : <>(s \in DOMAIN orderBooks)
    /\ \A s \in Symbols :
            (Outstanding(s) > 0) ~> (lastEvent.op = "snapshot" /\ lastEvent.sym = s)

\* the request made after a gap has failed: the book is the old one and the
\* retry timer is set
C18_Witness ==
    /\ lastEvent.op = "fetchFailed"
    /\ lastEvent.outcome = "resync"
    /\ lastEvent.sym \in DOMAIN orderBooks
    /\ retryTimers[lastEvent.sym] = 1
    /\ inflight[lastEvent.sym].plain + inflight[lastEvent.sym].resync = 0

(***************************************************************************)
(* Restart of the depth stream.                                            *)
(***************************************************************************)
\* C20: after the depth socket of a symbol was closed and opened again, no
\* depth event changes the book before a snapshot has been installed; here
\* for the first event of the new connection.
C20_NoDeltaAfterReconnect ==
    [][ \A s \in Symbols :
            ( /\ lastEvent.op = "feedReconnect"
              /\ lastEvent.sym = s
              /\ DepthStep(s) )
                => orderBooks' = orderBooks ]_vars

(***************************************************************************)
(* SpecStop: Spec with stop() called at any point.                         *)
(***************************************************************************)
NextStop ==
    \/ SyncNext(Snapshots, Deltas)
    \/ FeedNext
    \/ ClientNext({"btcusdt"}, {""})
    \/ Stop

SpecStop == Init /\ [][NextStop]_vars

\* C21: once stop() has been called, no depth socket is opened, no snapshot
\* request is made, no book changes and nothing is written to a client.
C21_StoppedIsTerminal ==
    [][ ~ isRunning =>
            /\ \A s \in Symbols : binanceWS'[s] = "OPEN" => binanceWS[s] = "OPEN"
            /\ \A s \in Symbols : FetchesInFlight(inflight', s) <= FetchesInFlight(inflight, s)
            /\ orderBooks' = orderBooks
            /\ sent' = sent ]_vars

(***************************************************************************)
(* SpecSendFail: two sockets on the symbol; client.send() can start to     *)
(* throw on an open socket at any time.                                    *)
(***************************************************************************)
NextSendFail ==
    \/ SyncNext(BackfillSnapshots, ClientDeltas)
    \/ ClientNext({"btcusdt"}, {""})
    \/ \E c \in DOMAIN conn : SendBreaks(c)

SpecSendFail == InitWith(TwoClients) /\ [][NextSendFail]_vars

\* the sockets a broadcast for s writes to when a send on another one throws
Healthy(s) == SymbolClients(s) \ sendThrows

\* the step wrote m, and nothing else, to socket c
Received(c, m) ==
    /\ sent'[c] = Append(sent[c], Header(m))
    /\ sub'[c] = OnMessage(sub[c], m)

\* the step runs the `.then` of a request made by the depth handler of s
ResyncStep(s) ==
    /\ lastEvent'.op \in {"snapshot", "fetchFailed"}
    /\ lastEvent'.sym = s
    /\ lastEvent'.outcome = "resync"

\* C22: when a depth event continuous with the book is handled, the event is
\* applied and every open subscriber of the symbol whose send does not throw
\* is written the depth_update, whatever happens on the other sockets; the
\* same for a resync; a throwing send is only counted as logged.
C22_SendFailureIsolated ==
    [][ \A s \in Symbols :
            /\ ( /\ DepthStep(s)
                 /\ s \in DOMAIN orderBooks
                 /\ Continuous(orderBooks[s], lastEvent'.arg) )
                    => /\ lastEvent'.outcome = "applied"
                       /\ orderBooks'[s] =
                            Advance(ApplyDeltas(orderBooks[s], lastEvent'.arg.b, lastEvent'.arg.a),
                                    lastEvent'.arg)
                       /\ \A c \in Healthy(s) : Received(c, DepthUpdateMsg(lastEvent'.arg))
                       /\ \A c \in SymbolClients(s) \cap sendThrows :
                            sent'[c] = sent[c] /\ sendErrors'[c] = sendErrors[c] + 1
            /\ ResyncStep(s)
                    => \A c \in Healthy(s) : Received(c, ResyncMsg(orderBooks'[s])) ]_vars

\* a depth event was applied while the send on one open socket of the symbol
\* threw, and another socket of the symbol was written the depth_update
C22_Witness ==
    /\ lastEvent.op = "depthUpdate"
    /\ lastEvent.outcome = "applied"
    /\ \E c1, c2 \in SymbolClients(lastEvent.sym) :
            /\ c1 \in sendThrows
            /\ sendErrors[c1] > 0
            /\ c2 \notin sendThrows
            /\ Len(sent[c2]) > 0
            /\ sent[c2][Len(sent[c2])].type = "depth_update"

\* C23: a socket on which a send has thrown is closed and is no target any
\* more: from the failure on it is not open, and no later send is tried on it.
C23_FailedSocketRemoved ==
    [][ \A c \in DOMAIN conn :
            /\ sendErrors'[c] > 0 => conn'[c].readyState # "OPEN"
            /\ sendErrors[c] > 0 => (sendErrors'[c] = sendErrors[c] /\ sent'[c] = sent[c]) ]_vars

(***************************************************************************)
(* SpecSlow: two sockets on the symbol; each client reads the messages     *)
(* written to its socket when it chooses to, or not at all.                *)
(***************************************************************************)
NextSlow ==
    \/ SyncNext(BackfillSnapshots, ClientDeltas)
    \/ ClientNext({"btcusdt"}, {""})
    \/ \E c \in DOMAIN conn : Drain(c)

SpecSlow == InitWith(TwoClients) /\ [][NextSlow]_vars

\* the messages written to socket c that its client has not read
Queued(c) == Len(sent[c]) - drained[c]

\* the code names no bound for a socket's queue; any bound below the number
\* of messages the explored runs write to one socket shows the same
QueueBound == MaxLive

\* C24: the queue of an open socket stays within the bound (a client that
\* stops reading is disconnected before its queue grows past it).
C24_QueueBounded ==
    \A c \in DOMAIN conn : conn[c].readyState = "OPEN" => Queued(c) <= QueueBound

(***************************************************************************)
(* Order and content of what a subscriber is written.                      *)
(***************************************************************************)
\* C25: what is written to a socket is appended to what was written before,
\* in the step that applied the delta or installed the snapshot; the
\* depth_update messages written to a socket since the last message that
\* carried a snapshot have strictly increasing u.
C25_OrderPreserved ==
    [][ \A c \in DOMAIN conn :
            /\ Len(sent'[c]) >= Len(sent[c])
            /\ SubSeq(sent'[c], 1, Len(sent[c])) = sent[c]
            /\ (DepthStep(conn[c].symbol) /\ sent'[c] # sent[c])
                    => /\ sent'[c] = Append(sent[c], Header(DepthUpdateMsg(lastEvent'.arg)))
                       /\ lastU[c] > 0 => lastEvent'.arg.u > lastU[c] ]_vars

\* a socket was written two depth_update messages in a row
C25_Witness ==
    /\ lastEvent.op = "depthUpdate"
    /\ lastEvent.outcome = "applied"
    /\ \E c \in SymbolClients(lastEvent.sym) :
            /\ Len(sent[c]) >= 3
            /\ sent[c][Len(sent[c]) - 1].type = "depth_update"
            /\ sent[c][Len(sent[c])].type = "depth_update"
            /\ lastU[c] = lastEvent.arg.u

(***************************************************************************)
(* SpecTwoSymbols: the service constructed for two symbols, two sockets    *)
(* that connect to either; every snapshot request is answered.             *)
(***************************************************************************)
TwoSymbols == {"BTCUSDT", "ETHUSDT"}

NextTwoSymbols ==
    \/ \E s \in DOMAIN inflight, k \in Kinds, snap \in BackfillSnapshots :
            FetchSuccess(s, k, snap)
    \/ \E s \in DOMAIN inflight, d \in ClientDeltas : FeedMessage(s, d)
    \/ ClientNext({"btcusdt", "ethusdt"}, {""})

SpecTwoSymbols == InitOver(TwoSymbols, TwoClients) /\ [][NextTwoSymbols]_vars

\* socket c is open and registered for s
Registered(c, s) == conn[c].symbol = s /\ conn[c].readyState = "OPEN"

\* C26: a depth event that is continuous with its symbol's book is written
\* once, as the depth_update made of that event, to every socket open and
\* registered for the symbol when it is handled, and to no other socket; a
\* depth event that is not applied writes nothing.
C26_OneUpdatePerAppliedDelta ==
    [][ \A s \in TwoSymbols :
            DepthStep(s) =>
                IF s \in DOMAIN orderBooks /\ Continuous(orderBooks[s], lastEvent'.arg)
                THEN /\ orderBooks'[s].lastUpdateId = lastEvent'.arg.u
                     /\ \A c \in DOMAIN conn :
                            IF Registered(c, s)
                            THEN /\ Received(c, DepthUpdateMsg(lastEvent'.arg))
                                 /\ lastU'[c] = lastEvent'.arg.u
                            ELSE sent'[c] = sent[c] /\ sub'[c] = sub[c]
                ELSE /\ orderBooks' = orderBooks
                     /\ sent' = sent
                     /\ sub' = sub ]_vars

\* a depth event of one symbol was applied while one socket was registered
\* for it and another for the other symbol
C26_Witness ==
    /\ lastEvent.op = "depthUpdate"
    /\ lastEvent.outcome = "applied"
    /\ \E c1, c2 \in DOMAIN conn :
            /\ Registered(c1, lastEvent.sym)
            /\ sent[c1][Len(sent[c1])].type = "depth_update"
            /\ conn[c2].readyState = "OPEN"
            /\ conn[c2].symbol \in TwoSymbols \ {lastEvent.sym}
            /\ TypesOf(sent[c2]) = {"live_snapshot"}

(***************************************************************************)
(* SpecHistory, SpecRing: the history of a service that has been sampling  *)
(* a quiet book for a while. The initial states are those reached from a   *)
(* loaded snapshot by n sampling ticks with no depth event in between: n   *)
(* one short of the first disk write (SpecHistory), n one short of the     *)
(* capacity (SpecRing); the file is as it was created. From there:         *)
(* sampling, depth events, snapshot requests; in SpecHistory also disk     *)
(* writes that succeed or fail, and clients.                               *)
(***************************************************************************)
\* the history after n samples of `book`, the last one taken at `timestamp`
Sampled(book, n, timestamp) ==
    [ i \in 1..n |-> SaveSnapshot(<< >>, book, timestamp + 1 - i)[1] ]

InitHistory(n) ==
    \E snap \in BackfillSnapshots :
        /\ orderBooks = [ s \in Symbols |-> snap ]
        /\ inflight = [ s \in Symbols |-> [ plain |-> 0, resync |-> 0 ] ]
        /\ retryTimers = [ s \in Symbols |-> 0 ]
        /\ initPending = {}
        /\ binanceWS = [ s \in Symbols |-> "OPEN" ]
        /\ snapshotTimer = TRUE
        /\ historicalData = [ s \in Symbols |-> Sampled(snap, n, 0) ]
        /\ now = 1
        /\ stream = [ s \in Symbols |-> 0 ]
        /\ conn = [ c \in Clients |-> FreeConn ]
        /\ sent = [ c \in Clients |-> << >> ]
        /\ sub = [ c \in Clients |-> NoSub ]
        /\ sendErrors = [ c \in Clients |-> 0 ]
        /\ lastU = [ c \in Clients |-> 0 ]
        /\ sendThrows = {}
        /\ drained = [ c \in Clients |-> 0 ]
        /\ isRunning = TRUE
        /\ concentrator = NoConcentrator
        /\ wsClient = NoWsClient
        /\ disk = [ s \in Symbols |-> DiskData(s) ]
        /\ commitTimers = [ s \in Symbols |-> 0 ]
        /\ lastEvent = Event("sample", "", "", NoArg)

HistoryDeltas ==
    { d \in DeltasOver(ChangesUpTo(1, {"100.20"}, {"0.00", "2.00"}), {<< >>}) : d.U = d.u }

NextHistory ==
    \/ SnapshotTick
    \/ \E s \in DOMAIN inflight, ok \in BOOLEAN : CommitHistoricalData(s, ok)
    \/ \E s \in DOMAIN inflight, d \in HistoryDeltas : StreamMessage(s, d)
    \/ \E s \in DOMAIN inflight, k \in Kinds, snap \in BackfillSnapshots : FetchSuccess(s, k, snap)
    \/ ClientNext({"btcusdt"}, {""})

\* the service one tick before the first commit of its history
SpecHistory == InitHistory(CommitEvery - 1) /\ [][NextHistory]_vars

NextRing ==
    \/ SnapshotTick
    \/ \E s \in DOMAIN inflight, d \in HistoryDeltas : StreamMessage(s, d)
    \/ \E s \in DOMAIN inflight, k \in Kinds, snap \in BackfillSnapshots : FetchSuccess(s, k, snap)

\* the service one tick before its history is full
SpecRing == InitHistory(HistoryCap - 1) /\ [][NextRing]_vars

\* newest first, no two snapshots of one capture time
NewestFirst(history) ==
    \A i \in 1..(Len(history) - 1) : history[i].timestamp > history[i + 1].timestamp

\* the capture times of a history, in its order
Timestamps(history) == [ i \in 1..Len(history) |-> history[i].timestamp ]

\* C27: a symbol's history never holds more than HistoryCap snapshots and is
\* ordered by capture time; a sampling tick puts the new snapshot in front of
\* the ones held, and drops the oldest one once the capacity is exceeded.
C27_HistoryIsRing ==
    /\ [](\A s \in Symbols :
            /\ Len(historicalData[s]) <= HistoryCap
            /\ NewestFirst(historicalData[s]))
    /\ [][ \A s \in Symbols :
            (lastEvent'.op = "sample" /\ s \in DOMAIN orderBooks)
                => /\ Len(historicalData'[s]) = Min(Len(historicalData[s]) + 1, HistoryCap)
                   /\ historicalData'[s][1].timestamp = now
                   /\ historicalData'[s][1].lastUpdateId = orderBooks[s].lastUpdateId
                   /\ Timestamps(historicalData'[s]) =
                        Slice(<< now >> \o Timestamps(historicalData[s]), HistoryCap) ]_vars

\* the history is full and the tick that has just run dropped the oldest
\* snapshot
C27_Witness ==
    /\ lastEvent.op = "sample"
    /\ \E s \in Symbols :
            /\ Len(historicalData[s]) = HistoryCap
            /\ historicalData[s][1].timestamp = 2
            /\ historicalData[s][HistoryCap].timestamp = 3 - HistoryCap

(***************************************************************************)
(* SpecRestart: the service started over the history file an earlier run   *)
(* left behind; clients ask for a backfill of one to three snapshots.      *)
(***************************************************************************)
\* the file of a run that sampled `book` n times up to time -1 and wrote it
\* when it stopped, once or (on top of its own file) twice
OldFile(book, n, twice) ==
    LET history == Sampled(book, n, 0 - 1)
        once == Committed(history, << >>, 0)
    IN  IF twice THEN Committed(history, once, 0) ELSE once

OldFiles ==
    { OldFile(book, n, twice) : book \in BackfillSnapshots, n \in 0..2, twice \in BOOLEAN }

InitRestart ==
    \E file \in OldFiles :
        /\ orderBooks = << >>
        /\ inflight = [ s \in Symbols |-> [ plain |-> 1, resync |-> 0 ] ]
        /\ retryTimers = [ s \in Symbols |-> 0 ]
        /\ initPending = Symbols
        /\ binanceWS = [ s \in Symbols |-> "NONE" ]
        /\ snapshotTimer = FALSE
        /\ historicalData = [ s \in Symbols |-> << >> ]
        /\ now = 1
        /\ stream = [ s \in Symbols |-> 0 ]
        /\ conn = [ c \in Clients |-> FreeConn ]
        /\ sent = [ c \in Clients |-> << >> ]
        /\ sub = [ c \in Clients |-> NoSub ]
        /\ sendErrors = [ c \in Clients |-> 0 ]
        /\ lastU = [ c \in Clients |-> 0 ]
        /\ sendThrows = {}
        /\ drained = [ c \in Clients |-> 0 ]
        /\ isRunning = TRUE
        /\ concentrator = NoConcentrator
        /\ wsClient = NoWsClient
        /\ disk = [ s \in Symbols |-> file ]
        /\ commitTimers = [ s \in Symbols |-> 0 ]
        /\ lastEvent = Event("construct", "", "", NoArg)

NextRestart ==
    \/ \E s \in DOMAIN inflight, k \in Kinds, snap \in BackfillSnapshots : FetchSuccess(s, k, snap)
    \/ BackfillNext
    \/ ClientNext({"btcusdt"}, {"1", "2", "3"})

SpecRestart == InitRestart /\ [][NextRestart]_vars

\* the capture times stored for a symbol, in memory or in its file
StoredTimes(s) ==
    { historicalData[s][i].timestamp : i \in 1..Len(historicalData[s]) }
        \cup { disk[s][i].timestamp : i \in 1..Len(disk[s]) }

\* the k latest of a set of times
Latest(times, k) == { x \in times : Cardinality({ y \in times : y > x }) < k }

RecordedLevels(history) ==
    [ i \in 1..Len(history) |-> [ bids |-> history[i].bids, asks |-> history[i].asks ] ]

\* C29: a depth event changes no price and no quantity of a snapshot that is
\* already recorded.
C29_SnapshotsImmutable ==
    [][ \A s \in Symbols :
            lastEvent'.op = "depthUpdate"
                => RecordedLevels(historicalData'[s]) = RecordedLevels(historicalData[s]) ]_vars

(***************************************************************************)
(* A history file that cannot be written (SpecHistory).                    *)
(***************************************************************************)
\* the event that came last is a commit that failed
CommitFailed(ev) == ev.op = "commit" /\ ev.outcome = "failed"

\* C30: a commit of the history that fails changes neither the in-memory
\* history, nor the book and its lastUpdateId, nor the file, nor any socket,
\* and stops nothing; the depth event that comes next, if it is continuous
\* with the book, is applied and written to the symbol's open sockets.
C30_CommitFailureContained ==
    [][ /\ CommitFailed(lastEvent')
            => UNCHANGED << historicalData, orderBooks, disk, conn, sent, sub, binanceWS,
                            inflight, retryTimers, snapshotTimer, isRunning >>
        /\ \A s \in Symbols :
            ( /\ CommitFailed(lastEvent)
              /\ DepthStep(s)
              /\ s \in DOMAIN orderBooks
              /\ Continuous(orderBooks[s], lastEvent'.arg) )
                => /\ lastEvent'.outcome = "applied"
                   /\ orderBooks'[s].lastUpdateId = lastEvent'.arg.u
                   /\ \A c \in DOMAIN conn :
                        Registered(c, s) => Received(c, DepthUpdateMsg(lastEvent'.arg)) ]_vars

\* a commit has just failed while the history holds its first CommitEvery
\* snapshots, the book has moved on and a client is connected
C30_Witness ==
    /\ CommitFailed(lastEvent)
    /\ Len(historicalData[lastEvent.sym]) = CommitEvery
    /\ orderBooks[lastEvent.sym].lastUpdateId > 0
    /\ disk[lastEvent.sym] = << >>
    /\ \E c \in DOMAIN conn : Registered(c, lastEvent.sym)

(***************************************************************************)
(* SpecFeedText: the exchange's stream with frames in it that are no depth *)
(* event; snapshot responses, sampling, a live-only client.                *)
(***************************************************************************)
NextFeedText ==
    \/ \E s \in DOMAIN inflight, k \in Kinds, snap \in BackfillSnapshots : FetchSuccess(s, k, snap)
    \/ \E s \in DOMAIN inflight, d \in ClientDeltas : StreamMessage(s, d)
    \/ \E s \in DOMAIN inflight, msg \in FeedTexts : FeedText(s, msg)
    \/ SnapshotTick
    \/ ClientNext({"btcusdt"}, {""})

SpecFeedText == Init /\ [][NextFeedText]_vars

Unparseable(ev) == ev.op = "message" /\ ev.outcome = "unparseable"

\* C31: a frame of the feed that cannot be parsed changes no book, no
\* history, no socket and nothing sent, and asks for no snapshot; the depth
\* socket stays open, and the depth event that comes next on it, if it is
\* continuous with the book, is applied and written to the open sockets.
C31_UnparseableIgnored ==
    [][ /\ Unparseable(lastEvent')
            => UNCHANGED << orderBooks, historicalData, conn, sent, sub, binanceWS,
                            inflight, retryTimers, stream, disk, isRunning >>
        /\ \A s \in Symbols :
            ( /\ Unparseable(lastEvent)
              /\ lastEvent.sym = s
              /\ DepthStep(s)
              /\ s \in DOMAIN orderBooks
              /\ Continuous(orderBooks[s], lastEvent'.arg) )
                => /\ lastEvent'.outcome = "applied"
                   /\ orderBooks'[s].lastUpdateId = lastEvent'.arg.u
                   /\ \A c \in DOMAIN conn :
                        Registered(c, s) => Received(c, DepthUpdateMsg(lastEvent'.arg)) ]_vars

\* an unparseable frame has just been handled on a live feed: the book has
\* taken a delta, a snapshot is in the history and a client is connected
C31_Witness ==
    /\ Unparseable(lastEvent)
    /\ lastEvent.sym \in DOMAIN orderBooks
    /\ orderBooks[lastEvent.sym].lastUpdateId > 0
    /\ historicalData[lastEvent.sym] # << >>
    /\ \E c \in DOMAIN conn : Registered(c, lastEvent.sym)

(***************************************************************************)
(* SpecSilent: a depth socket on which the exchange may send nothing,      *)
(* while the sampling timer counts periods of 30 s.                        *)
(***************************************************************************)
NextSilent ==
    \/ FetchNext(BackfillSnapshots)
    \/ \E s \in DOMAIN inflight, d \in ClientDeltas : StreamMessage(s, d)
    \/ SnapshotTick

SpecSilent == Init /\ [][NextSilent]_vars

\* the depth socket of s has been connected since before the first sampling
\* tick, the second tick (30 s later) has passed, and no depth event has
\* been received yet
SilentForAPeriod(s) ==
    /\ binanceWS[s] = "OPEN"
    /\ stream[s] = 0
    /\ now - 1 >= 2

\* C32: a depth socket that stays silent for the watchdog period (10 s in
\* the concentrator, shorter than a sampling period) is closed: no socket is
\* still open after a whole sampling period without a message.
C32_SilentFeedClosed == \A s \in Symbols : ~SilentForAPeriod(s)

(***************************************************************************)
(* SpecWalls: the walls plugin behind a live-only connection, on books     *)
(* whose sides can be empty (in the snapshot, or once a delta has removed  *)
(* the only level).                                                        *)
(***************************************************************************)
WallSnapshots == SnapshotsOver({"100.20"}, {"100.30"}, {"1.00"})

WallDeltas ==
    { d \in DeltasOver(ChangesUpTo(1, {"100.20"}, {"0.00", "2.00"}),
                       ChangesUpTo(1, {"100.30"}, {"0.00", "2.00"})) : d.U = d.u }

\* this.currentKlinePrice: null until the first candle
KlinePrices == { << >>, << 10025 >> }

NextWalls ==
    \/ \E s \in DOMAIN inflight, k \in Kinds, snap \in WallSnapshots : FetchSuccess(s, k, snap)
    \/ \E s \in DOMAIN inflight, d \in WallDeltas : StreamMessage(s, d)
    \/ ClientNext({"btcusdt"}, {""})

SpecWalls == Init /\ [][NextWalls]_vars

\* C33: a plugin whose book has an empty bid side or an empty ask side is
\* not ready: processWalls computes no mid price and runs no wall detection,
\* so no BUY or SELL signal comes from that book.
C33_EmptySideNotReady ==
    \A c \in DOMAIN sub, k \in KlinePrices :
        (sub[c].isSnapshotLoaded /\ (sub[c].bids = << >> \/ sub[c].asks = << >>))
            => /\ ~ WallsReady(sub[c], k)
               /\ WallsOutcome(sub[c], k).midPrice2 = << >>
               /\ ~ WallsOutcome(sub[c], k).detection

\* a depth update has just taken the only ask out of the plugin's book,
\* which still has a bid
C33_Witness ==
    /\ lastEvent.op = "depthUpdate"
    /\ lastEvent.outcome = "applied"
    /\ \E c \in DOMAIN sub :
            /\ Registered(c, lastEvent.sym)
            /\ sub[c].isSnapshotLoaded
            /\ sub[c].bids # << >>
            /\ sub[c].asks = << >>

(***************************************************************************)
(* WebSocketClient (binanceCOB.js): a socket that reconnects after a       *)
(* close. << >> stands for an absent option and for Infinity. inARow       *)
(* counts the connections made by the reconnect timer since the last open. *)
(***************************************************************************)
serviceVars == << orderBooks, inflight, retryTimers, initPending, binanceWS, snapshotTimer,
                  historicalData, now, stream, conn, sent, sub, sendErrors, lastU,
                  sendThrows, drained, isRunning, disk, commitTimers, lastEvent >>

\* options.maxRetries || Infinity
MaxRetriesOf(option) == IF option = << >> \/ option[1] = 0 THEN << >> ELSE option

\* n < limit
Below(n, limit) == limit = << >> \/ n < limit[1]

\* new WebSocketClient(url, { maxRetries: option }): the constructor connects
WsClientNew(option) ==
    [ option |-> option, maxRetries |-> MaxRetriesOf(option), retryCount |-> 0,
      readyState |-> "CONNECTING", timer |-> FALSE, listeners |-> {}, inARow |-> 0 ]

RetryOptions == { << >>, << 0 >>, << 1 >>, << 2 >>, << 3 >> }

InitWsClient ==
    /\ ServiceInit(Symbols, Clients)
    /\ concentrator = NoConcentrator
    /\ \E option \in RetryOptions : wsClient = WsClientNew(option)

\* this.ws.onopen
WsClientOpen ==
    /\ wsClient.readyState = "CONNECTING"
    /\ wsClient' = [ wsClient EXCEPT !.readyState = "OPEN", !.retryCount = 0, !.inARow = 0 ]
    /\ UNCHANGED << serviceVars, concentrator >>

\* this.ws.onclose: the connection failed or was lost
WsClientClose ==
    /\ wsClient.readyState \in {"CONNECTING", "OPEN"}
    /\ wsClient' = [ wsClient EXCEPT !.readyState = "CLOSED",
                                      !.timer = Below(wsClient.retryCount, wsClient.maxRetries) ]
    /\ UNCHANGED << serviceVars, concentrator >>

\* the reconnect timer fires: retryCount++, connect()
WsClientReconnect ==
    /\ wsClient.timer
    /\ wsClient.inARow < MaxAttempts
    /\ wsClient' = [ wsClient EXCEPT !.timer = FALSE, !.retryCount = @ + 1,
                                      !.readyState = "CONNECTING", !.inARow = @ + 1 ]
    /\ UNCHANGED << serviceVars, concentrator >>

\* on(event, callback), for one callback
WsClientOn(event) ==
    /\ wsClient.readyState # "NONE"
    /\ event \notin wsClient.listeners
    /\ wsClient' = [ wsClient EXCEPT !.listeners = @ \cup {event} ]
    /\ UNCHANGED << serviceVars, concentrator >>

\* off(event, callback)
WsClientOff(event) ==
    /\ event \in wsClient.listeners
    /\ wsClient' = [ wsClient EXCEPT !.listeners = @ \ {event} ]
    /\ UNCHANGED << serviceVars, concentrator >>

NextWsClient ==
    \/ WsClientOpen
    \/ WsClientClose
    \/ WsClientReconnect
    \/ \E event \in {"open", "close"} : WsClientOn(event)
    \/ \E event \in {"open", "close"} : WsClientOff(event)

SpecWsClient == InitWsClient /\ [][NextWsClient]_vars

\* C34: a client constructed with maxRetries = n makes at most n connections
\* in a row by its reconnect timer, for every n given, 0 included.
C34_AtMostMaxRetries ==
    wsClient.option # << >> => wsClient.inARow <= wsClient.option[1]


(***************************************************************************)
(* Two symbols side by side: snapshot responses, initial and retried       *)
(* requests that fail, the depth events of each symbol's stream (with the  *)
(* gaps that a missed event or a late snapshot leaves), the sampling timer *)
(* and one client that subscribes to either symbol.                        *)
(***************************************************************************)
NextIsolation ==
    \/ \E s \in DOMAIN inflight, k \in Kinds, snap \in BackfillSnapshots : FetchSuccess(s, k, snap)
    \/ \E s \in DOMAIN inflight : FetchFail(s, "plain")
    \/ \E s \in DOMAIN inflight : RetryFetch(s)
    \/ \E s \in DOMAIN inflight, d \in ClientDeltas : StreamMessage(s, d)
    \/ SnapshotTick
    \/ ClientNext({"btcusdt", "ethusdt"}, {""})

SpecIsolation == InitOver(TwoSymbols, Clients) /\ [][NextIsolation]_vars

\* a step of the order-book synchronisation of one symbol
SymbolStep(ev) == ev.op \in {"depthUpdate", "snapshot", "fetchFailed", "retry"}

\* everything the service keeps for symbol b, and what it has written to the
\* clients subscribed to b
Untouched(b) ==
    /\ (b \in DOMAIN orderBooks') = (b \in DOMAIN orderBooks)
    /\ b \in DOMAIN orderBooks => orderBooks'[b] = orderBooks[b]
    /\ historicalData'[b] = historicalData[b]
    /\ \A c \in DOMAIN conn :
          Registered(c, b) =>
              /\ sent'[c] = sent[c]
              /\ sub'[c] = sub[c]

\* C35: a feed message, a gap, a snapshot response or a fetch failure of
\* symbol A leaves the book of every other symbol B, its lastUpdateId and its
\* history as they were and writes nothing to the subscribers of B.
C35_SymbolsIsolated ==
    [][ SymbolStep(lastEvent') =>
            \A b \in DOMAIN inflight \ {lastEvent'.sym} : Untouched(b) ]_vars

\* a gap of one symbol was handled while the other symbol had a book, a
\* recorded history and a live subscriber
C35_Witness ==
    /\ lastEvent.op = "depthUpdate"
    /\ lastEvent.outcome = "gap"
    /\ \E b \in DOMAIN inflight \ {lastEvent.sym} : \E c \in DOMAIN conn :
          /\ b \in DOMAIN orderBooks
          /\ orderBooks[b].lastUpdateId > 0
          /\ Len(historicalData[b]) > 0
          /\ Registered(c, b)
          /\ Len(sent[c]) > 0


\* the symbols whose first snapshot has not been installed
AwaitingFirstSnapshot == DOMAIN inflight \ DOMAIN orderBooks

\* C36: before the first snapshot of a symbol is installed no depth event of
\* the symbol is applied or broadcast (an event that arrives while the
\* initial request is failing and being retried changes nothing and requests
\* nothing), and no client is registered for the symbol.
C36_NothingBeforeFirstSnapshot ==
    [][ \A s \in AwaitingFirstSnapshot :
            /\ s \in AwaitingFirstSnapshot' => \A c \in DOMAIN conn : ~Registered(c, s)'
            /\ (lastEvent'.op = "depthUpdate" /\ lastEvent'.sym = s) =>
                  /\ lastEvent'.outcome = "nobook"
                  /\ UNCHANGED << orderBooks, historicalData, inflight, retryTimers,
                                  sent, sub >>
            /\ (lastEvent'.op = "connect" /\ lastEvent'.sym = s) =>
                  lastEvent'.outcome = "rejected" ]_vars

\* a depth event has just been discarded for a symbol whose initial request
\* failed and waits for its retry, while the other symbol is live
C36_Witness ==
    /\ lastEvent.op = "depthUpdate"
    /\ lastEvent.outcome = "nobook"
    /\ lastEvent.sym \in AwaitingFirstSnapshot
    /\ retryTimers[lastEvent.sym] > 0
    /\ DOMAIN orderBooks # {}


\* C37: installing a snapshot never moves a book backwards: the lastUpdateId
\* of the book a snapshot response installs is not lower than the
\* lastUpdateId the symbol's book had just before.
C37_InstallNeverBackwards ==
    [][ (lastEvent'.op = "snapshot" /\ lastEvent'.sym \in DOMAIN orderBooks) =>
            orderBooks'[lastEvent'.sym].lastUpdateId
                >= orderBooks[lastEvent'.sym].lastUpdateId ]_vars


(***************************************************************************)
(* A depthUpdate event without its `a` field. The continuity branch calls  *)
(* _applyDeltas(book, data.b, undefined): the bid changes are made in      *)
(* place, `deltas.forEach` of the ask side throws, the two sorts, the      *)
(* assignment of lastUpdateId and the broadcast are skipped and the        *)
(* handler's catch logs the error. The other branches do not read `a`.     *)
(***************************************************************************)
\* _applyDeltas up to the throw: the bid side changed, neither side sorted
ApplyDeltasUntilThrow(book, bids) == [ book EXCEPT !.bids = ApplySide(book.bids, bids) ]

\* ws.on('message') for a depthUpdate event d whose `a` is missing
OnDepthUpdateWithoutAsks(s, d) ==
    IF s \in DOMAIN orderBooks /\ Continuous(orderBooks[s], d)
    THEN /\ binanceWS[s] = "OPEN"
         /\ orderBooks' = [ orderBooks EXCEPT ![s] = ApplyDeltasUntilThrow(@, d.b) ]
         /\ historicalData' = [ historicalData EXCEPT ![s] =
                TouchSide(@, "bids", orderBooks[s].bids, d.b) ]
         /\ lastEvent' = Event("depthUpdate", s, "threw", d)
         /\ UNCHANGED << inflight, retryTimers, initPending, binanceWS, snapshotTimer,
                         now, conn, sent, sub, sendErrors, lastU, sendThrows,
                         drained, isRunning, concentrator, wsClient, disk, commitTimers >>
    ELSE OnDepthUpdate(s, d)

\* such an event in the order of the exchange's stream
StreamMessageWithoutAsks(s, d) ==
    /\ d.U > stream[s]
    /\ OnDepthUpdateWithoutAsks(s, d)
    /\ stream' = [ stream EXCEPT ![s] = d.u ]

NextIllFormed ==
    \/ \E s \in DOMAIN inflight, k \in Kinds, snap \in Snapshots : FetchSuccess(s, k, snap)
    \/ \E s \in DOMAIN inflight, d \in Deltas : StreamMessage(s, d)
    \/ \E s \in DOMAIN inflight, d \in Deltas : StreamMessageWithoutAsks(s, d)
    \/ ClientNext({"btcusdt"}, {""})

SpecIllFormed == Init /\ [][NextIllFormed]_vars

\* C38: applying a depth event is all or nothing: a depth event that leaves
\* any of its level changes in the book also advances lastUpdateId to its u
\* and is written to every socket registered for the symbol; this includes
\* an event whose b or a is missing and makes the handler throw.
C38_AllOrNothing ==
    [][ (lastEvent'.op = "depthUpdate" /\ lastEvent'.sym \in DOMAIN orderBooks) =>
            LET s == lastEvent'.sym
            IN  \/ /\ orderBooks'[s].bids = orderBooks[s].bids
                   /\ orderBooks'[s].asks = orderBooks[s].asks
                \/ /\ orderBooks'[s].lastUpdateId = lastEvent'.arg.u
                   /\ \A c \in DOMAIN conn :
                         Registered(c, s) => Len(sent'[c]) = Len(sent[c]) + 1 ]_vars


(***************************************************************************)
(* BinanceWebSocketConcentrator (binanceWSC.js): one upstream socket per   *)
(* symbol. binanceWS[symbol] is the registered socket (0: none). A socket  *)
(* object lives from `new WebSocket` to its close event; sockets[symbol]   *)
(* holds the live ones under the ids 1..MaxSockets ("NONE": id not in      *)
(* use). timers[symbol] counts the pending 5 s reconnect timers, toInit is *)
(* what the loop of initializeService has still to visit. The 10 s timer   *)
(* of a socket that has closed can only close() a closed socket and is     *)
(* dropped with it.                                                        *)
(***************************************************************************)
MaxSockets == 2
MaxTimers == 2

\* SYMBOLS, in the order of the loop
ConcentratorSymbols == << "BTCUSDT", "ETHUSDT" >>

SymbolSet == { ConcentratorSymbols[i] : i \in 1..Len(ConcentratorSymbols) }

NoSocket == [ readyState |-> "NONE", hasReceivedMessage |-> FALSE, messageTimeout |-> FALSE ]

\* new BinanceWebSocketConcentrator(SYMBOLS), up to the first await
ConcentratorNew ==
    [ isPaused |-> FALSE,
      binanceWS |-> [ s \in SymbolSet |-> 0 ],
      sockets |-> [ s \in SymbolSet |-> [ i \in 1..MaxSockets |-> NoSocket ] ],
      timers |-> [ s \in SymbolSet |-> 0 ],
      toInit |-> ConcentratorSymbols ]

FreeIds(k, symbol) == { i \in 1..MaxSockets : k.sockets[symbol][i].readyState = "NONE" }

Live(k, symbol) == (1..MaxSockets) \ FreeIds(k, symbol)

\* new WebSocket(combinedWS); ...; this.binanceWS[symbol] = ws
Connect(k, symbol) ==
    LET id == CHOOSE i \in FreeIds(k, symbol) : \A j \in FreeIds(k, symbol) : i <= j
    IN  [ k EXCEPT !.sockets[symbol][id] = [ NoSocket EXCEPT !.readyState = "CONNECTING" ],
                   !.binanceWS[symbol] = id ]

\* a variant that connects while paused
InitializeWebSocketForSymbolWhilePaused(k, symbol) ==
    IF k.binanceWS[symbol] # 0 THEN k
    ELSE Connect(k, symbol)

\* initializeWebSocketForSymbol(symbol)
InitializeWebSocketForSymbol(k, symbol) ==
    IF k.binanceWS[symbol] # 0 THEN k
    ELSE IF k.isPaused THEN k
    ELSE Connect(k, symbol)

\* what a call of initializeWebSocketForSymbol did
Initialized(k, symbol) ==
    IF k.binanceWS[symbol] # 0 THEN "already"
    ELSE IF k.isPaused THEN "paused"
    ELSE "connected"

\* ws.close() on an upstream socket
CloseSocket(socket) ==
    IF socket.readyState \in {"CONNECTING", "OPEN"}
    THEN [ socket EXCEPT !.readyState = "CLOSING" ]
    ELSE socket

RECURSIVE InitializeAll(_, _)
InitializeAll(k, symbols) ==
    IF symbols = << >> THEN k
    ELSE InitializeAll(
            IF k.binanceWS[Head(symbols)] = 0
            THEN InitializeWebSocketForSymbol(k, Head(symbols))
            ELSE k,
            Tail(symbols))

\* the service's variables but lastEvent
quietVars == << orderBooks, inflight, retryTimers, initPending, binanceWS, snapshotTimer,
                historicalData, now, stream, conn, sent, sub, sendErrors, lastU,
                sendThrows, drained, isRunning, disk, commitTimers >>

InitConcentrator ==
    /\ ServiceInit(Symbols, Clients)
    /\ wsClient = NoWsClient
    /\ concentrator = ConcentratorNew

\* initializeService: the loop goes on after `await loadOrInitializeFiles`
InitializeService ==
    /\ concentrator.toInit # << >>
    /\ LET symbol == Head(concentrator.toInit)
       IN  /\ concentrator' = [ InitializeWebSocketForSymbol(concentrator, symbol)
                                  EXCEPT !.toInit = Tail(concentrator.toInit) ]
           /\ lastEvent' = Event("initializeService", symbol,
                                 Initialized(concentrator, symbol), NoArg)
    /\ UNCHANGED << quietVars, wsClient >>

\* ws.on('open')
UpstreamOpen(s, i) ==
    /\ concentrator.sockets[s][i].readyState = "CONNECTING"
    /\ concentrator' = [ concentrator EXCEPT !.sockets[s][i] =
            [ readyState |-> "OPEN", hasReceivedMessage |-> FALSE, messageTimeout |-> TRUE ] ]
    /\ lastEvent' = Event("upstreamOpen", s, "", NoArg)
    /\ UNCHANGED << quietVars, wsClient >>

\* ws.on('message'): the first message clears the 10 s timer
UpstreamMessage(s, i) ==
    /\ concentrator.sockets[s][i].readyState = "OPEN"
    /\ ~concentrator.sockets[s][i].hasReceivedMessage
    /\ concentrator' = [ concentrator EXCEPT !.sockets[s][i].hasReceivedMessage = TRUE,
                                              !.sockets[s][i].messageTimeout = FALSE ]
    /\ lastEvent' = Event("upstreamMessage", s, "", NoArg)
    /\ UNCHANGED << quietVars, wsClient >>

\* ws.messageTimeout fires: no message within 10 s of the open
MessageTimeout(s, i) ==
    /\ concentrator.sockets[s][i].messageTimeout
    /\ concentrator' = [ concentrator EXCEPT !.sockets[s][i] =
            [ (IF @.hasReceivedMessage THEN @ ELSE CloseSocket(@))
                EXCEPT !.messageTimeout = FALSE ] ]
    /\ lastEvent' = Event("messageTimeout", s, "", NoArg)
    /\ UNCHANGED << quietVars, wsClient >>

\* ws.on('close'): after close(), terminate(), a failed handshake or a lost
\* connection
UpstreamClose(s, i) ==
    /\ concentrator.sockets[s][i].readyState # "NONE"
    /\ concentrator.timers[s] < MaxTimers
    /\ concentrator' = [ concentrator EXCEPT !.sockets[s][i] = NoSocket,
                                              !.binanceWS[s] = 0,
                                              !.timers[s] = @ + 1 ]
    /\ lastEvent' = Event("upstreamClose", s, "", NoArg)
    /\ UNCHANGED << quietVars, wsClient >>

\* setTimeout(() => this.initializeWebSocketForSymbol(symbol), 5000) fires
ReconnectTimer(s) ==
    /\ concentrator.timers[s] > 0
    /\ concentrator' = [ InitializeWebSocketForSymbol(concentrator, s)
                            EXCEPT !.timers[s] = @ - 1 ]
    /\ lastEvent' = Event("reconnectTimer", s, Initialized(concentrator, s), NoArg)
    /\ UNCHANGED << quietVars, wsClient >>

PauseStream ==
    /\ concentrator' = [ concentrator EXCEPT
            !.isPaused = TRUE,
            !.sockets = [ s \in SymbolSet |-> [ i \in 1..MaxSockets |->
                            IF concentrator.binanceWS[s] = i
                            THEN CloseSocket(concentrator.sockets[s][i])
                            ELSE concentrator.sockets[s][i] ] ] ]
    /\ lastEvent' = Event("pauseStream", "", "", NoArg)
    /\ UNCHANGED << quietVars, wsClient >>

ResumeStream ==
    /\ concentrator' = InitializeAll([ concentrator EXCEPT !.isPaused = FALSE ],
                                     ConcentratorSymbols)
    /\ lastEvent' = Event("resumeStream", "", "", NoArg)
    /\ UNCHANGED << quietVars, wsClient >>

NextConcentrator ==
    \/ InitializeService
    \/ \E s \in SymbolSet, i \in 1..MaxSockets : UpstreamOpen(s, i)
    \/ \E s \in SymbolSet, i \in 1..MaxSockets : UpstreamMessage(s, i)
    \/ \E s \in SymbolSet, i \in 1..MaxSockets : MessageTimeout(s, i)
    \/ \E s \in SymbolSet, i \in 1..MaxSockets : UpstreamClose(s, i)
    \/ \E s \in SymbolSet : ReconnectTimer(s)
    \/ PauseStream
    \/ ResumeStream

\* timers fire and the loop of initializeService goes on
ConcentratorFairness ==
    /\ WF_vars(InitializeService)
    /\ \A s \in SymbolSet : WF_vars(ReconnectTimer(s))

SpecConcentrator == InitConcentrator /\ [][NextConcentrator]_vars /\ ConcentratorFairness

\* a socket object was made in this step
Connected(s) == Cardinality(Live(concentrator', s)) > Cardinality(Live(concentrator, s))

\* C39: in the concentrator no upstream socket is made while the stream is
\* paused, whoever asks (the loop, resumeStream or a reconnect timer set
\* before the pause); a symbol never has more than one live upstream socket,
\* and the registered one is it; resumeStream leaves every symbol with a
\* registered socket, and while the stream is not paused a symbol without a
\* socket gets one.
C39_PauseResume ==
    /\ [][ \A s \in SymbolSet : Connected(s) => ~concentrator'.isPaused ]_vars
    /\ [](\A s \in SymbolSet :
            /\ Cardinality(Live(concentrator, s)) <= 1
            /\ concentrator.binanceWS[s] # 0 => Live(concentrator, s) = {concentrator.binanceWS[s]})
    /\ [][ lastEvent'.op = "resumeStream" =>
            \A s \in SymbolSet : concentrator'.binanceWS[s] # 0 ]_vars
    /\ \A s \in SymbolSet :
            (~concentrator.isPaused /\ concentrator.binanceWS[s] = 0)
                ~> (concentrator.isPaused \/ concentrator.binanceWS[s] # 0)

\* a reconnect timer set before the pause has just fired while the stream is
\* paused, and the symbol has no socket
C39_Witness ==
    /\ lastEvent.op = "reconnectTimer"
    /\ lastEvent.outcome = "paused"
    /\ concentrator.isPaused
    /\ Live(concentrator, lastEvent.sym) = {}

====
